---- MODULE Spec2Model ----
(***************************************************************************)
(* Streaming anomaly evaluator of home_env_power_detector_v3.py:           *)
(* EWMABaseline, Config, StreamingDetector.__init__ and                    *)
(* StreamingDetector.update (accumulator, EWMA breach tracker, overcurrent *)
(* tracker, spike detector, thermal rule), and of                          *)
(* anomaly_detector_package.py: SensorReading.from_dict and                *)
(* AnomalyDetectorManager.process_data with its counters.                  *)
(*                                                                         *)
(* Numbers.  power_W, the baseline sums and all thresholds are exact       *)
(* rationals here (the code uses IEEE doubles).  Timestamps are whole      *)
(* seconds counted from 1 January 00:00 of a non-leap year.  The EWMA and  *)
(* the squared deviation score are fractions of arbitrary-size naturals    *)
(* (little-endian digit sequences in base Base), because their             *)
(* denominators grow as ewma_alpha_den^calls.  |z| > k is decided as       *)
(* z^2 > k^2, and max(peak, |z|) as the larger of the squares.             *)
(***************************************************************************)
EXTENDS Integers, Sequences, FiniteSets, TLC

(***************************************************************************)
(* Arbitrary-size naturals.                                                *)
(***************************************************************************)
Base == 10000

RECURSIVE Big(_)
Big(k) == IF k = 0 THEN <<>> ELSE <<k % Base>> \o Big(k \div Base)

BigZero == <<>>

BigOne == <<1>>

RECURSIVE BigAddC(_, _, _)
BigAddC(a, b, c) ==
    IF a = <<>> /\ b = <<>>
    THEN (IF c = 0 THEN <<>> ELSE <<c>>)
    ELSE LET x == (IF a = <<>> THEN 0 ELSE Head(a))
                  + (IF b = <<>> THEN 0 ELSE Head(b)) + c
         IN  <<x % Base>> \o BigAddC(IF a = <<>> THEN <<>> ELSE Tail(a),
                                     IF b = <<>> THEN <<>> ELSE Tail(b),
                                     x \div Base)

BigAdd(a, b) == BigAddC(a, b, 0)

RECURSIVE BigNorm(_)
BigNorm(a) ==
    IF a = <<>> THEN <<>>
    ELSE IF a[Len(a)] = 0 THEN BigNorm(SubSeq(a, 1, Len(a) - 1))
    ELSE a

RECURSIVE BigCmpFrom(_, _, _)
BigCmpFrom(a, b, i) ==
    IF i = 0 THEN 0
    ELSE IF a[i] > b[i] THEN 1
    ELSE IF a[i] < b[i] THEN -1
    ELSE BigCmpFrom(a, b, i - 1)

\* -1, 0, 1 as a < b, a = b, a > b
BigCmp(a, b) ==
    IF Len(a) > Len(b) THEN 1
    ELSE IF Len(a) < Len(b) THEN -1
    ELSE BigCmpFrom(a, b, Len(a))

BigGT(a, b) == BigCmp(a, b) = 1

BigGE(a, b) == BigCmp(a, b) >= 0

RECURSIVE BigSubB(_, _, _)
BigSubB(a, b, c) ==
    IF a = <<>> THEN <<>>
    ELSE LET x == Head(a) - (IF b = <<>> THEN 0 ELSE Head(b)) - c
         IN  <<(x + Base) % Base>>
             \o BigSubB(Tail(a), IF b = <<>> THEN <<>> ELSE Tail(b),
                        IF x < 0 THEN 1 ELSE 0)

\* a - b for a >= b
BigSub(a, b) == BigNorm(BigSubB(a, b, 0))

\* |a - b|
BigAbsDiff(a, b) == IF BigGE(a, b) THEN BigSub(a, b) ELSE BigSub(b, a)

RECURSIVE BigMulDigit(_, _, _)
BigMulDigit(a, d, c) ==
    IF a = <<>> THEN (IF c = 0 THEN <<>> ELSE <<c>>)
    ELSE LET x == Head(a) * d + c
         IN  <<x % Base>> \o BigMulDigit(Tail(a), d, x \div Base)

RECURSIVE BigMul(_, _)
BigMul(a, b) ==
    IF a = <<>> \/ b = <<>> THEN <<>>
    ELSE LET rest == BigMul(a, Tail(b))
         IN  BigAdd(BigMulDigit(a, Head(b), 0),
                    IF rest = <<>> THEN <<>> ELSE <<0>> \o rest)

BigSq(a) == BigMul(a, a)

(***************************************************************************)
(* Optional values: None is the empty sequence, a present value v is <<v>>.*)
(***************************************************************************)
None == <<>>

Some(v) == <<v>>

Val(o) == o[1]

Abs(i) == IF i < 0 THEN -i ELSE i

Max(a, b) == IF a >= b THEN a ELSE b

(***************************************************************************)
(* Config defaults (dataclass Config).  Fractions are num/den pairs.       *)
(***************************************************************************)
Config ==
    [ewma_alpha_num |-> 1,
     ewma_alpha_den |-> 5,
     ewma_k |-> 3,
     ewma_sustain_sec |-> 10,
     mains_voltage_V |-> 220,
     current_limit_A |-> 30,
     near_limit_ratio_num |-> 9,
     near_limit_ratio_den |-> 10,
     near_limit_min_sec |-> 4,
     spike_delta_A |-> 10,
     spike_abs_A |-> 40,
     summer_months |-> {6, 7, 8},
     winter_months |-> {12, 1, 2},
     summer_indoor_over_outdoor_warn |-> 1,
     summer_indoor_over_outdoor_alert |-> 3,
     winter_indoor_above_outdoor_min_warn |-> 5,
     winter_indoor_above_outdoor_min_alert |-> 3,
     use_lux_gate |-> TRUE,
     occupancy_lux_threshold |-> 20]

(***************************************************************************)
(* EWMABaseline.  A baseline with n samples, mean m and standard deviation *)
(* s (all whole numbers) has sum = n*m and sum_sqr = n*(m*m + s*s).        *)
(***************************************************************************)
EWMABaseline(n0, m, s) == [n |-> n0, sum |-> n0 * m, sum_sqr |-> n0 * (m * m + s * s)]

VARIABLES
    cfg,              \* self.cfg
    baseline,         \* self.baseline
    dt,               \* self.dt (sample_period_s)
    _ewma,            \* fraction of Big naturals
    _ewma_breaching,
    _ewma_start,      \* None or <<ts>>
    _ewma_peak,       \* the peak |z| squared, a fraction of Big naturals
    _over_start,      \* None or <<ts>>
    _over_active,
    _last_I,          \* None or <<fraction>>
    _last_ts,         \* None or <<ts>>
    _n,
    _sum,
    _sum_sqr,
    out,              \* the list returned by the latest update call
    err,              \* None, or <<name>> of the exception the latest call raised
    total_processed,  \* AnomalyDetectorManager.total_processed
    total_anomalies,  \* AnomalyDetectorManager.total_anomalies
    result,           \* None, or <<DetectionResult>> returned by the latest process_data
    server,           \* RealtimeAnomalyServer: total_data_points, total_events, websocket_clients
    batch,            \* None, or <<state>> of a run_batch in progress
    baseline_json,    \* the record EWMABaseline.from_json read
    constructed,      \* construction succeeded: a detector exists
    frames,           \* the update calls in progress on the detector, with their locals
    tasks,            \* the coroutines of the event loop and the WebSocket connections
    twin,             \* None, or <<fields>> of a second detector fed the same samples
    hist,             \* observer of the call sequence (not program state)
    script            \* position of a scripted caller, and whether its latest
                      \* call gave no power value (not program state)

vars == <<cfg, baseline, dt, _ewma, _ewma_breaching, _ewma_start, _ewma_peak,
          _over_start, _over_active, _last_I, _last_ts, _n, _sum, _sum_sqr,
          out, err, total_processed, total_anomalies, result, server, batch,
          baseline_json, constructed, frames, twin, hist, script, tasks>>

(***************************************************************************)
(* Fractions of machine integers (positive denominators).                  *)
(***************************************************************************)
Frac(a, b) == [num |-> a, den |-> b]

FracGE(a, b) == a.num * b.den >= b.num * a.den

FracSub(a, b) == [num |-> a.num * b.den - b.num * a.den, den |-> a.den * b.den]

FracAbs(a) == [num |-> Abs(a.num), den |-> a.den]

\* fractions of Big naturals
BigFrac(a, b) == [num |-> a, den |-> b]

BigFracZero == BigFrac(BigZero, BigOne)

BigFracGT(a, b) == BigGT(BigMul(a.num, b.den), BigMul(b.num, a.den))

BigFracGE(a, b) == BigGE(BigMul(a.num, b.den), BigMul(b.num, a.den))

BigFracMax(a, b) == IF BigFracGE(a, b) THEN a ELSE b

(***************************************************************************)
(* Calendar month of a timestamp (ts.month).                               *)
(***************************************************************************)
SecPerDay == 86400

MonthEnd == <<31, 59, 90, 120, 151, 181, 212, 243, 273, 304, 334, 365>>

Month(ts) ==
    LET day == (ts \div SecPerDay) % 365
    IN  CHOOSE m \in 1..12 :
            /\ day < MonthEnd[m]
            /\ (m = 1 \/ day >= MonthEnd[m - 1])

(***************************************************************************)
(* StreamingDetector helpers.                                              *)
(***************************************************************************)
\* _lux_ok that lets an absent lux through the gate
_lux_ok_AbsentPasses(c, lux) ==
    IF ~c.use_lux_gate THEN TRUE
    ELSE (lux = None) \/ (Val(lux) >= c.occupancy_lux_threshold)

_lux_ok(c, lux) ==
    IF ~c.use_lux_gate THEN TRUE
    ELSE (lux # None) /\ (Val(lux) >= c.occupancy_lux_threshold)

\* _update_stats with a decaying sum of squares
_update_stats_Decay(n0, s0, q0, value_w) ==
    [n |-> n0 + 1, sum |-> s0 + value_w,
     sum_sqr |-> (q0 * 9) \div 10 + value_w * value_w]

_update_stats(n0, s0, q0, value_w) ==
    [n |-> n0 + 1, sum |-> s0 + value_w, sum_sqr |-> q0 + value_w * value_w]

\* mu as a fraction, var = sd*sd (floored at 0) as a fraction of Big naturals
_stats(n0, s0, q0) ==
    LET n1 == Max(1, n0)
        a  == IF q0 >= 0 THEN BigMul(Big(n1), Big(q0)) ELSE BigZero
        b  == BigSq(Big(Abs(s0)))
    IN  [mu  |-> Frac(s0, n1),
         var |-> BigFrac(IF BigGT(a, b) THEN BigSub(a, b) ELSE BigZero,
                         BigSq(Big(n1)))]

\* EWMABaseline.mean as a fraction
mean(b) == Frac(b.sum, Max(1, b.n))

\* EWMABaseline.std squared (the floored variance), a fraction of Big naturals
std(b) ==
    LET n1 == Max(1, b.n)
        a  == IF b.sum_sqr >= 0 THEN BigMul(Big(n1), Big(b.sum_sqr)) ELSE BigZero
        q  == BigSq(Big(Abs(b.sum)))
    IN  BigFrac(IF BigGT(a, q) THEN BigSub(a, q) ELSE BigZero, BigSq(Big(n1)))

\* self._ewma = alpha * power_W + (1 - alpha) * self._ewma
EwmaNext(c, e, power_W) ==
    BigFrac(BigAdd(BigMul(Big(c.ewma_alpha_num * power_W), e.den),
                   BigMul(Big(c.ewma_alpha_den - c.ewma_alpha_num), e.num)),
            BigMul(Big(c.ewma_alpha_den), e.den))

\* ZSquared without the sd == 0.0 case: a non-zero deviation over a zero sd
\* is beyond every k
ZSquared_NoZeroGuard(e, power_W, var) ==
    BigFrac(BigMul(BigSq(BigAbsDiff(BigMul(Big(power_W), e.den), e.num)),
                   var.den),
            BigMul(BigSq(e.den), var.num))

\* z*z where z = 0.0 if sd == 0.0 else (power_W - self._ewma) / sd
ZSquared(e, power_W, var) ==
    IF var.num = BigZero THEN BigFracZero
    ELSE BigFrac(BigMul(BigSq(BigAbsDiff(BigMul(Big(power_W), e.den), e.num)),
                        var.den),
                 BigMul(BigSq(e.den), var.num))

\* above = abs(z) > self.cfg.ewma_k
Above(c, z2) == BigFracGT(z2, BigFrac(Big(c.ewma_k * c.ewma_k), BigOne))

Event(type, start, end, severity, info) ==
    [type |-> type, start |-> start, end |-> end, severity |-> severity,
     info |-> info]

\* EwmaTracker that leaves the stored peak in place when a breach ends
EwmaTracker_StalePeak(c, breaching, start, peak, above, z2, ts, st) ==
    IF above /\ ~breaching
    THEN [breaching |-> TRUE, start |-> Some(ts), peak |-> z2, events |-> <<>>]
    ELSE IF above /\ breaching
    THEN [breaching |-> TRUE, start |-> start,
          peak |-> BigFracMax(peak, z2), events |-> <<>>]
    ELSE IF (~above) /\ breaching
    THEN [breaching |-> FALSE, start |-> None, peak |-> peak,
          events |-> IF ts - Val(start) >= c.ewma_sustain_sec
                     THEN <<Event("power_ewma_anomaly", Val(start), ts, "alert",
                                  [z_peak |-> peak, mu_W |-> st.mu,
                                   sd_W |-> st.var])>>
                     ELSE <<>>]
    ELSE [breaching |-> breaching, start |-> start, peak |-> peak,
          events |-> <<>>]

\* EwmaTracker that keeps the score of the first breached sample as its peak
EwmaTracker_FirstPeak(c, breaching, start, peak, above, z2, ts, st) ==
    IF above /\ ~breaching
    THEN [breaching |-> TRUE, start |-> Some(ts), peak |-> z2, events |-> <<>>]
    ELSE IF above /\ breaching
    THEN [breaching |-> TRUE, start |-> start, peak |-> peak, events |-> <<>>]
    ELSE IF (~above) /\ breaching
    THEN [breaching |-> FALSE, start |-> None, peak |-> BigFracZero,
          events |-> IF ts - Val(start) >= c.ewma_sustain_sec
                     THEN <<Event("power_ewma_anomaly", Val(start), ts, "alert",
                                  [z_peak |-> peak, mu_W |-> st.mu,
                                   sd_W |-> st.var])>>
                     ELSE <<>>]
    ELSE [breaching |-> breaching, start |-> start, peak |-> peak,
          events |-> <<>>]

\* EwmaTracker with the sustain test made strict (duration > ewma_sustain_sec)
EwmaTracker_Strict(c, breaching, start, peak, above, z2, ts, st) ==
    IF above /\ ~breaching
    THEN [breaching |-> TRUE, start |-> Some(ts), peak |-> z2, events |-> <<>>]
    ELSE IF above /\ breaching
    THEN [breaching |-> TRUE, start |-> start,
          peak |-> BigFracMax(peak, z2), events |-> <<>>]
    ELSE IF (~above) /\ breaching
    THEN [breaching |-> FALSE, start |-> None, peak |-> BigFracZero,
          events |-> IF ts - Val(start) > c.ewma_sustain_sec
                     THEN <<Event("power_ewma_anomaly", Val(start), ts, "alert",
                                  [z_peak |-> peak, mu_W |-> st.mu,
                                   sd_W |-> st.var])>>
                     ELSE <<>>]
    ELSE [breaching |-> breaching, start |-> start, peak |-> peak,
          events |-> <<>>]

\* EwmaTracker that also emits while the breach is still going on
EwmaTracker_Eager(c, breaching, start, peak, above, z2, ts, st) ==
    IF above /\ ~breaching
    THEN [breaching |-> TRUE, start |-> Some(ts), peak |-> z2, events |-> <<>>]
    ELSE IF above /\ breaching
    THEN [breaching |-> TRUE, start |-> start,
          peak |-> BigFracMax(peak, z2),
          events |-> IF ts - Val(start) >= c.ewma_sustain_sec
                     THEN <<Event("power_ewma_anomaly", Val(start), ts, "alert",
                                  [z_peak |-> BigFracMax(peak, z2),
                                   mu_W |-> st.mu, sd_W |-> st.var])>>
                     ELSE <<>>]
    ELSE IF (~above) /\ breaching
    THEN [breaching |-> FALSE, start |-> None, peak |-> BigFracZero,
          events |-> IF ts - Val(start) >= c.ewma_sustain_sec
                     THEN <<Event("power_ewma_anomaly", Val(start), ts, "alert",
                                  [z_peak |-> peak, mu_W |-> st.mu,
                                   sd_W |-> st.var])>>
                     ELSE <<>>]
    ELSE [breaching |-> breaching, start |-> start, peak |-> peak,
          events |-> <<>>]

\* EwmaTracker that resets only when it emits (a short breach stays open)
EwmaTracker_KeepShort(c, breaching, start, peak, above, z2, ts, st) ==
    IF above /\ ~breaching
    THEN [breaching |-> TRUE, start |-> Some(ts), peak |-> z2, events |-> <<>>]
    ELSE IF above /\ breaching
    THEN [breaching |-> TRUE, start |-> start,
          peak |-> BigFracMax(peak, z2), events |-> <<>>]
    ELSE IF (~above) /\ breaching
    THEN IF ts - Val(start) >= c.ewma_sustain_sec
         THEN [breaching |-> FALSE, start |-> None, peak |-> BigFracZero,
               events |-> <<Event("power_ewma_anomaly", Val(start), ts, "alert",
                                  [z_peak |-> peak, mu_W |-> st.mu,
                                   sd_W |-> st.var])>>]
         ELSE [breaching |-> breaching, start |-> start, peak |-> peak,
               events |-> <<>>]
    ELSE [breaching |-> breaching, start |-> start, peak |-> peak,
          events |-> <<>>]

\* the breach state machine of update; z_peak, sd_W are carried as squares
EwmaTracker(c, breaching, start, peak, above, z2, ts, st) ==
    IF above /\ ~breaching
    THEN [breaching |-> TRUE, start |-> Some(ts), peak |-> z2, events |-> <<>>]
    ELSE IF above /\ breaching
    THEN [breaching |-> TRUE, start |-> start,
          peak |-> BigFracMax(peak, z2), events |-> <<>>]
    ELSE IF (~above) /\ breaching
    THEN [breaching |-> FALSE, start |-> None, peak |-> BigFracZero,
          events |-> IF ts - Val(start) >= c.ewma_sustain_sec
                     THEN <<Event("power_ewma_anomaly", Val(start), ts, "alert",
                                  [z_peak |-> peak, mu_W |-> st.mu,
                                   sd_W |-> st.var])>>
                     ELSE <<>>]
    ELSE [breaching |-> breaching, start |-> start, peak |-> peak,
          events |-> <<>>]

\* I = power_W / max(1e-9, V)
CurrentA(c, power_W) ==
    IF c.mains_voltage_V >= 1
    THEN Frac(power_W, c.mains_voltage_V)
    ELSE Frac(power_W * 1000000000, 1)

\* warn_level = near_limit_ratio * current_limit_A
WarnLevel(c) == Frac(c.near_limit_ratio_num * c.current_limit_A,
                     c.near_limit_ratio_den)

\* OverEvent whose alert needs a current strictly above the limit
OverEvent_StrictLimit(c, start, I, ts) ==
    Event("overcurrent_near_limit", Val(start), ts,
          IF ~FracGE(Frac(c.current_limit_A, 1), I) THEN "alert" ELSE "warn",
          [I_A |-> I, limit_A |-> c.current_limit_A,
           ratio |-> Frac(I.num, I.den * c.current_limit_A)])

OverEvent(c, start, I, ts) ==
    Event("overcurrent_near_limit", Val(start), ts,
          IF FracGE(I, Frac(c.current_limit_A, 1)) THEN "alert" ELSE "warn",
          [I_A |-> I, limit_A |-> c.current_limit_A,
           ratio |-> Frac(I.num, I.den * c.current_limit_A)])

\* OverTracker whose arming call already runs the duration test
OverTracker_EmitOnArm(c, active, start, I, ts) ==
    IF FracGE(I, WarnLevel(c))
    THEN IF ts - Val(IF active THEN start ELSE Some(ts)) >= c.near_limit_min_sec
         THEN [active |-> TRUE, start |-> Some(ts),
               events |-> <<OverEvent(c, IF active THEN start ELSE Some(ts),
                                      I, ts)>>]
         ELSE [active |-> TRUE, start |-> IF active THEN start ELSE Some(ts),
               events |-> <<>>]
    ELSE [active |-> FALSE, start |-> None, events |-> <<>>]

\* OverTracker that does not re-arm when it emits
OverTracker_NoRearm(c, active, start, I, ts) ==
    IF FracGE(I, WarnLevel(c))
    THEN IF ~active
         THEN [active |-> TRUE, start |-> Some(ts), events |-> <<>>]
         ELSE IF ts - Val(start) >= c.near_limit_min_sec
              THEN [active |-> TRUE, start |-> start,
                    events |-> <<OverEvent(c, start, I, ts)>>]
              ELSE [active |-> TRUE, start |-> start, events |-> <<>>]
    ELSE [active |-> FALSE, start |-> None, events |-> <<>>]

\* OverTracker that restarts its clock on every sample at or above the warn
\* level
OverTracker_Restarts(c, active, start, I, ts) ==
    IF FracGE(I, WarnLevel(c))
    THEN IF ~active
         THEN [active |-> TRUE, start |-> Some(ts), events |-> <<>>]
         ELSE IF ts - Val(start) >= c.near_limit_min_sec
              THEN [active |-> TRUE, start |-> Some(ts),
                    events |-> <<OverEvent(c, start, I, ts)>>]
              ELSE [active |-> TRUE, start |-> Some(ts), events |-> <<>>]
    ELSE [active |-> FALSE, start |-> None, events |-> <<>>]

\* OverTracker that keeps its state when the current dips below the warn level
OverTracker_KeepOnDip(c, active, start, I, ts) ==
    IF FracGE(I, WarnLevel(c))
    THEN IF ~active
         THEN [active |-> TRUE, start |-> Some(ts), events |-> <<>>]
         ELSE IF ts - Val(start) >= c.near_limit_min_sec
              THEN [active |-> TRUE, start |-> Some(ts),
                    events |-> <<OverEvent(c, start, I, ts)>>]
              ELSE [active |-> TRUE, start |-> start, events |-> <<>>]
    ELSE [active |-> active, start |-> start, events |-> <<>>]

\* the overcurrent state machine of update
OverTracker(c, active, start, I, ts) ==
    IF FracGE(I, WarnLevel(c))
    THEN IF ~active
         THEN [active |-> TRUE, start |-> Some(ts), events |-> <<>>]
         ELSE IF ts - Val(start) >= c.near_limit_min_sec
              THEN [active |-> TRUE, start |-> Some(ts),
                    events |-> <<OverEvent(c, start, I, ts)>>]
              ELSE [active |-> TRUE, start |-> start, events |-> <<>>]
    ELSE [active |-> FALSE, start |-> None, events |-> <<>>]

\* SpikeDetector without the absolute-current rule
SpikeDetector_DeltaOnly(c, lastI, lastTs, I, ts) ==
    IF lastI # None /\ lastTs # None
    THEN LET dI == FracSub(I, Val(lastI))
         IN  IF FracGE(FracAbs(dI), Frac(c.spike_delta_A, 1))
             THEN <<Event("short_spike_suspect", Val(lastTs), ts, "alert",
                          [delta_A |-> dI, I_A |-> I])>>
             ELSE <<>>
    ELSE <<>>

\* SpikeDetector that takes a missing previous current as 0 A
SpikeDetector_FromZero(c, lastI, lastTs, I, ts) ==
    LET prevI  == IF lastI # None THEN Val(lastI) ELSE Frac(0, 1)
        prevTs == IF lastTs # None THEN Val(lastTs) ELSE ts
        dI     == FracSub(I, prevI)
    IN  IF FracGE(FracAbs(dI), Frac(c.spike_delta_A, 1))
           \/ FracGE(I, Frac(c.spike_abs_A, 1))
        THEN <<Event("short_spike_suspect", prevTs, ts, "alert",
                     [delta_A |-> dI, I_A |-> I])>>
        ELSE <<>>

\* the spike rule of update
SpikeDetector(c, lastI, lastTs, I, ts) ==
    IF lastI # None /\ lastTs # None
    THEN LET dI == FracSub(I, Val(lastI))
         IN  IF FracGE(FracAbs(dI), Frac(c.spike_delta_A, 1))
                \/ FracGE(I, Frac(c.spike_abs_A, 1))
             THEN <<Event("short_spike_suspect", Val(lastTs), ts, "alert",
                          [delta_A |-> dI, I_A |-> I])>>
             ELSE <<>>
    ELSE <<>>

\* ThermalRule whose winter branch tests the warn threshold first
ThermalRule_WinterWarnFirst(c, ts, room_temp_C, lux, outdoor_temp_C) ==
    IF (room_temp_C # None) /\ (outdoor_temp_C # None) /\ _lux_ok(c, lux)
    THEN LET m    == Month(ts)
             diff == Val(room_temp_C) - Val(outdoor_temp_C)
             info == [room_C |-> Val(room_temp_C),
                      outdoor_C |-> Val(outdoor_temp_C), delta_C |-> diff]
         IN  (IF m \in c.summer_months
              THEN IF diff >= c.summer_indoor_over_outdoor_alert
                   THEN <<Event("thermal_summer_room_hot_vs_outdoor", ts, ts,
                                "alert", info)>>
                   ELSE IF diff >= c.summer_indoor_over_outdoor_warn
                   THEN <<Event("thermal_summer_room_hot_vs_outdoor", ts, ts,
                                "warn", info)>>
                   ELSE <<>>
              ELSE <<>>)
             \o
             (IF m \in c.winter_months
              THEN IF diff <= c.winter_indoor_above_outdoor_min_warn
                   THEN <<Event("thermal_winter_room_too_cold_vs_outdoor", ts,
                                ts, "warn", info)>>
                   ELSE IF diff <= c.winter_indoor_above_outdoor_min_alert
                   THEN <<Event("thermal_winter_room_too_cold_vs_outdoor", ts,
                                ts, "alert", info)>>
                   ELSE <<>>
              ELSE <<>>)
    ELSE <<>>

\* the thermal rule of update
ThermalRule(c, ts, room_temp_C, lux, outdoor_temp_C) ==
    IF (room_temp_C # None) /\ (outdoor_temp_C # None) /\ _lux_ok(c, lux)
    THEN LET m    == Month(ts)
             diff == Val(room_temp_C) - Val(outdoor_temp_C)
             info == [room_C |-> Val(room_temp_C),
                      outdoor_C |-> Val(outdoor_temp_C), delta_C |-> diff]
         IN  (IF m \in c.summer_months
              THEN IF diff >= c.summer_indoor_over_outdoor_alert
                   THEN <<Event("thermal_summer_room_hot_vs_outdoor", ts, ts,
                                "alert", info)>>
                   ELSE IF diff >= c.summer_indoor_over_outdoor_warn
                   THEN <<Event("thermal_summer_room_hot_vs_outdoor", ts, ts,
                                "warn", info)>>
                   ELSE <<>>
              ELSE <<>>)
             \o
             (IF m \in c.winter_months
              THEN IF diff <= c.winter_indoor_above_outdoor_min_alert
                   THEN <<Event("thermal_winter_room_too_cold_vs_outdoor", ts,
                                ts, "alert", info)>>
                   ELSE IF diff <= c.winter_indoor_above_outdoor_min_warn
                   THEN <<Event("thermal_winter_room_too_cold_vs_outdoor", ts,
                                ts, "warn", info)>>
                   ELSE <<>>
              ELSE <<>>)
    ELSE <<>>

(***************************************************************************)
(* Observer of the call sequence.  It is computed from the inputs and the  *)
(* returned lists only, never from the trackers' fields.                   *)
(***************************************************************************)
OfType(evs, t) == SelectSeq(evs, LAMBDA e : e.type = t)

EwmaEvents(evs) == OfType(evs, "power_ewma_anomaly")

OverEvents(evs) == OfType(evs, "overcurrent_near_limit")

HistInit(t0) ==
    [calls      |-> 0,       \* update calls so far
     clock      |-> t0,      \* the caller's clock
     mono       |-> TRUE,    \* timestamps so far are non-decreasing
     above      |-> FALSE,   \* the latest sample was breached
     run        |-> None,    \* first timestamp of the current run of breached samples
     ended      |-> None,    \* first timestamp of the run the latest call ended
     hot        |-> FALSE,   \* the latest sample had I >= warn level
     hot_run    |-> None,    \* first timestamp of the current run of hot samples
     armed_now  |-> FALSE,   \* the latest call was the first of a hot run
     cooled_run |-> None,    \* first timestamp of the hot run the latest call ended
     over_end   |-> None,    \* end of the latest overcurrent event
     over_prev  |-> None,    \* end of the overcurrent event before that
     n_ewma     |-> 0,       \* power_ewma_anomaly events so far
     n_over     |-> 0,       \* overcurrent_near_limit events so far
     n_alert    |-> 0,       \* of these, severity alert
     n_long     |-> 0,       \* ended runs of breached samples that lasted
                             \* at least ewma_sustain_sec
     n_all      |-> 0,       \* events of every type so far
     power      |-> 0,       \* power_W of the latest sample
     room       |-> None,    \* room_temp_C of the latest sample
     lux        |-> None,    \* lux of the latest sample
     outdoor    |-> None,    \* outdoor_temp_C of the latest sample
     sum_v      |-> 0,       \* sum of the power values given so far
     sum_v2     |-> 0,       \* sum of their squares
     peak       |-> BigFracZero, \* largest z*z of the current run of breached
                                 \* samples
     ended_peak |-> None,    \* that of the run the latest call ended
     run_events |-> 0]       \* overcurrent events of the current hot run

HistNext(c, h, ts, above, hot, evs, inp) ==
    LET ov == OverEvents(evs)
    IN  [calls      |-> h.calls + 1,
         clock      |-> ts,
         mono       |-> h.mono /\ (h.calls = 0 \/ ts >= h.clock),
         above      |-> above,
         run        |-> IF above THEN (IF h.above THEN h.run ELSE Some(ts))
                        ELSE None,
         ended      |-> IF ~above /\ h.above THEN h.run ELSE None,
         hot        |-> hot,
         hot_run    |-> IF hot THEN (IF h.hot THEN h.hot_run ELSE Some(ts))
                        ELSE None,
         armed_now  |-> hot /\ ~h.hot,
         cooled_run |-> IF ~hot /\ h.hot THEN h.hot_run ELSE None,
         over_end   |-> IF ov # <<>> THEN Some(ov[Len(ov)].end) ELSE h.over_end,
         over_prev  |-> IF ov # <<>> THEN h.over_end ELSE h.over_prev,
         n_ewma     |-> h.n_ewma + Len(EwmaEvents(evs)),
         n_over     |-> h.n_over + Len(ov),
         n_alert    |-> h.n_alert
                        + Len(SelectSeq(ov, LAMBDA e : e.severity = "alert")),
         n_long     |-> h.n_long
                        + (IF /\ ~above /\ h.above
                              /\ ts - Val(h.run) >= c.ewma_sustain_sec
                           THEN 1 ELSE 0),
         n_all      |-> h.n_all + Len(evs),
         power      |-> inp.power_W,
         room       |-> inp.room_temp_C,
         lux        |-> inp.lux,
         outdoor    |-> inp.outdoor_temp_C,
         sum_v      |-> h.sum_v + inp.power_W,
         sum_v2     |-> h.sum_v2 + inp.power_W * inp.power_W,
         peak       |-> IF above
                        THEN (IF h.above /\ BigFracGE(h.peak, inp.z2)
                              THEN h.peak ELSE inp.z2)
                        ELSE BigFracZero,
         ended_peak |-> IF ~above /\ h.above THEN Some(h.peak) ELSE None,
         run_events |-> IF hot
                        THEN (IF h.hot THEN h.run_events ELSE 0) + Len(ov)
                        ELSE 0]

(***************************************************************************)
(* StreamingDetector.__init__                                              *)
(***************************************************************************)
(***************************************************************************)
(* EWMABaseline.from_json.  A value of the record read from the file is    *)
(* absent (no such key), null, a number num/den, or a string that is not a *)
(* number.                                                                 *)
(***************************************************************************)
JAbsent == [kind |-> "absent", num |-> 0, den |-> 1]

JNull == [kind |-> "null", num |-> 0, den |-> 1]

JText == [kind |-> "text", num |-> 0, den |-> 1]

JNumber(a, b) == [kind |-> "number", num |-> a, den |-> b]

\* the exception d[key] or the conversion of the value raises, or None
ConvertError(v) ==
    CASE v.kind = "absent" -> Some("KeyError")
      [] v.kind = "null" -> Some("TypeError")
      [] v.kind = "text" -> Some("ValueError")
      [] OTHER -> None

\* int(v) of a number: truncation toward zero
IntOf(v) ==
    IF v.num >= 0 THEN v.num \div v.den ELSE -((-v.num) \div v.den)

\* cls(n=int(d["n"]), sum=float(d["sum"]), sum_sqr=float(d["sum_sqr"])); the
\* sums of the records used here are whole numbers
from_json(d) ==
    IF ConvertError(d.n) # None THEN [err |-> ConvertError(d.n)]
    ELSE IF ConvertError(d.sum) # None THEN [err |-> ConvertError(d.sum)]
    ELSE IF ConvertError(d.sum_sqr) # None THEN [err |-> ConvertError(d.sum_sqr)]
    ELSE [err |-> None,
          baseline |-> [n |-> IntOf(d.n), sum |-> IntOf(d.sum),
                        sum_sqr |-> IntOf(d.sum_sqr)]]

\* the record that loads to baseline b
JsonOf(b) ==
    [n |-> JNumber(b.n, 1), sum |-> JNumber(b.sum, 1),
     sum_sqr |-> JNumber(b.sum_sqr, 1)]

\* the fields __init__ assigns, as one record
Fresh(b, sample_period_s) ==
    [n |-> b.n, sum |-> b.sum, sum_sqr |-> b.sum_sqr, ewma |-> BigFracZero,
     breaching |-> FALSE, start |-> None, peak |-> BigFracZero,
     over_active |-> FALSE, over_start |-> None, last_I |-> None,
     last_ts |-> None, dt |-> sample_period_s, out |-> <<>>, err |-> None]

\* __init__ that leaves the overcurrent tracker armed
DetectorInit_Armed(b, c, sample_period_s, t0) ==
    /\ baseline = b
    /\ cfg = c
    /\ dt = sample_period_s
    /\ _ewma = BigFracZero
    /\ _ewma_breaching = FALSE
    /\ _ewma_start = None
    /\ _ewma_peak = BigFracZero
    /\ _over_start = Some(t0 - 10)
    /\ _over_active = TRUE
    /\ _last_I = None
    /\ _last_ts = None
    /\ _n = b.n
    /\ _sum = b.sum
    /\ _sum_sqr = b.sum_sqr
    /\ out = <<>>
    /\ err = None
    /\ constructed = TRUE
    /\ frames = <<>>
    /\ hist = HistInit(t0)
    /\ script = [phase |-> "free", warm_breach |-> FALSE, missing |-> FALSE,
                 seq |-> 0, ts_in |-> None, now |-> 0, converts |-> FALSE,
                 completed |-> 0, returned |-> 0,
                 fed |-> <<>>, emitted |-> <<>>]

DetectorInit(b, c, sample_period_s, t0) ==
    /\ baseline = b
    /\ cfg = c
    /\ dt = sample_period_s
    /\ _ewma = BigFracZero
    /\ _ewma_breaching = FALSE
    /\ _ewma_start = None
    /\ _ewma_peak = BigFracZero
    /\ _over_start = None
    /\ _over_active = FALSE
    /\ _last_I = None
    /\ _last_ts = None
    /\ _n = b.n
    /\ _sum = b.sum
    /\ _sum_sqr = b.sum_sqr
    /\ out = <<>>
    /\ err = None
    /\ constructed = TRUE
    /\ frames = <<>>
    /\ hist = HistInit(t0)
    /\ script = [phase |-> "free", warm_breach |-> FALSE, missing |-> FALSE,
                 seq |-> 0, ts_in |-> None, now |-> 0, converts |-> FALSE,
                 completed |-> 0, returned |-> 0,
                 fed |-> <<>>, emitted |-> <<>>]

\* AnomalyDetectorManager.__init__: the counters
ManagerInit ==
    /\ total_processed = 0
    /\ total_anomalies = 0
    /\ result = None

\* RealtimeAnomalyServer.__init__: the counters
ServerInit ==
    server = [total_data_points |-> 0, total_events |-> 0,
              websocket_clients |-> <<>>]

\* a detector on its own, freshly constructed
Standalone(b, c, sample_period_s, t0) ==
    /\ DetectorInit(b, c, sample_period_s, t0)
    /\ baseline_json = JsonOf(b)
    /\ ManagerInit
    /\ ServerInit
    /\ batch = None
    /\ twin = None
    /\ tasks = <<>>

(***************************************************************************)
(* StreamingDetector.update                                                *)
(***************************************************************************)
\* the detector's fields, as one record
Self ==
    [n |-> _n, sum |-> _sum, sum_sqr |-> _sum_sqr, ewma |-> _ewma,
     breaching |-> _ewma_breaching, start |-> _ewma_start,
     peak |-> _ewma_peak, over_active |-> _over_active,
     over_start |-> _over_start, last_I |-> _last_I, last_ts |-> _last_ts,
     dt |-> dt, out |-> out, err |-> err]

\* I / self.cfg.current_limit_A, evaluated while the overcurrent event is
\* built, raises on a zero limit
OverRaises(c, ov) == ov.events # <<>> /\ c.current_limit_A = 0

\* Step that scores the sample against the statistics before the fold
Step_ScoreBeforeFold(c, d, ts, power_W, room_temp_C, lux, outdoor_temp_C) ==
    LET acc == _update_stats(d.n, d.sum, d.sum_sqr, power_W)
        I   == CurrentA(c, power_W)
    IN  LET F1(st, e) ==
              LET F2(z2) ==
                    LET F3(above, ov) ==
                          [acc |-> acc, ewma |-> e, z2 |-> z2, above |-> above,
                           I |-> I,
                           tr |-> EwmaTracker(c, d.breaching, d.start, d.peak,
                                              above, z2, ts, st),
                           ov |-> ov,
                           raises |-> OverRaises(c, ov),
                           sp |-> SpikeDetector(c, d.last_I, d.last_ts, I, ts),
                           th |-> ThermalRule(c, ts, room_temp_C, lux,
                                              outdoor_temp_C)]
                    IN  F3(Above(c, z2),
                           OverTracker(c, d.over_active, d.over_start, I, ts))
              IN  F2(ZSquared(e, power_W, st.var))
        IN  F1(_stats(d.n, d.sum, d.sum_sqr), EwmaNext(c, d.ewma, power_W))

\* Step that measures the overcurrent duration one sample period ahead
Step_UsesPeriod(c, d, ts, power_W, room_temp_C, lux, outdoor_temp_C) ==
    LET acc == _update_stats(d.n, d.sum, d.sum_sqr, power_W)
        I   == CurrentA(c, power_W)
    IN  LET F1(st, e) ==
              LET F2(z2) ==
                    LET F3(above, ov) ==
                          [acc |-> acc, ewma |-> e, z2 |-> z2, above |-> above,
                           I |-> I,
                           tr |-> EwmaTracker(c, d.breaching, d.start, d.peak,
                                              above, z2, ts, st),
                           ov |-> ov,
                           raises |-> OverRaises(c, ov),
                           sp |-> SpikeDetector(c, d.last_I, d.last_ts, I, ts),
                           th |-> ThermalRule(c, ts, room_temp_C, lux,
                                              outdoor_temp_C)]
                    IN  F3(Above(c, z2),
                           OverTracker(c, d.over_active, d.over_start, I,
                                       ts + d.dt))
              IN  F2(ZSquared(e, power_W, st.var))
        IN  F1(_stats(acc.n, acc.sum, acc.sum_sqr), EwmaNext(c, d.ewma, power_W))

\* everything update computes, as one record
Step(c, d, ts, power_W, room_temp_C, lux, outdoor_temp_C) ==
    LET acc == _update_stats(d.n, d.sum, d.sum_sqr, power_W)
        I   == CurrentA(c, power_W)
    IN  LET F1(st, e) ==
              LET F2(z2) ==
                    LET F3(above, ov) ==
                          [acc |-> acc, ewma |-> e, z2 |-> z2, above |-> above,
                           I |-> I,
                           tr |-> EwmaTracker(c, d.breaching, d.start, d.peak,
                                              above, z2, ts, st),
                           ov |-> ov,
                           raises |-> OverRaises(c, ov),
                           sp |-> SpikeDetector(c, d.last_I, d.last_ts, I, ts),
                           th |-> ThermalRule(c, ts, room_temp_C, lux,
                                              outdoor_temp_C)]
                    IN  F3(Above(c, z2),
                           OverTracker(c, d.over_active, d.over_start, I, ts))
              IN  F2(ZSquared(e, power_W, st.var))
        IN  F1(_stats(acc.n, acc.sum, acc.sum_sqr), EwmaNext(c, d.ewma, power_W))

\* After that leaves _last_I as it was when the call returned a thermal event
After_ThermalSkipsLast(r, d, ts) ==
    IF r.raises
    THEN [d EXCEPT !.n = r.acc.n, !.sum = r.acc.sum, !.sum_sqr = r.acc.sum_sqr,
                   !.ewma = r.ewma, !.breaching = r.tr.breaching,
                   !.start = r.tr.start, !.peak = r.tr.peak,
                   !.out = <<>>, !.err = Some("ZeroDivisionError")]
    ELSE [n |-> r.acc.n, sum |-> r.acc.sum, sum_sqr |-> r.acc.sum_sqr,
          ewma |-> r.ewma, breaching |-> r.tr.breaching, start |-> r.tr.start,
          peak |-> r.tr.peak, over_active |-> r.ov.active,
          over_start |-> r.ov.start,
          last_I |-> IF r.th # <<>> /\ d.last_I # None THEN d.last_I
                     ELSE Some(r.I),
          last_ts |-> Some(ts), dt |-> d.dt,
          out |-> r.tr.events \o r.ov.events \o r.sp \o r.th, err |-> None]

\* the fields after an update call that computed r: all assignments when it
\* returns, those made before line 231 when it raises there
After(r, d, ts) ==
    IF r.raises
    THEN [d EXCEPT !.n = r.acc.n, !.sum = r.acc.sum, !.sum_sqr = r.acc.sum_sqr,
                   !.ewma = r.ewma, !.breaching = r.tr.breaching,
                   !.start = r.tr.start, !.peak = r.tr.peak,
                   !.out = <<>>, !.err = Some("ZeroDivisionError")]
    ELSE [n |-> r.acc.n, sum |-> r.acc.sum, sum_sqr |-> r.acc.sum_sqr,
          ewma |-> r.ewma, breaching |-> r.tr.breaching, start |-> r.tr.start,
          peak |-> r.tr.peak, over_active |-> r.ov.active,
          over_start |-> r.ov.start, last_I |-> Some(r.I),
          last_ts |-> Some(ts), dt |-> d.dt,
          out |-> r.tr.events \o r.ov.events \o r.sp \o r.th, err |-> None]

\* Becomes for a detector that shares the accumulator with its Baseline
Becomes_SharedAccumulator(a) ==
    /\ _n' = a.n
    /\ _sum' = a.sum
    /\ _sum_sqr' = a.sum_sqr
    /\ _ewma' = a.ewma
    /\ _ewma_breaching' = a.breaching
    /\ _ewma_start' = a.start
    /\ _ewma_peak' = a.peak
    /\ _over_active' = a.over_active
    /\ _over_start' = a.over_start
    /\ _last_I' = a.last_I
    /\ _last_ts' = a.last_ts
    /\ out' = a.out
    /\ err' = a.err
    /\ baseline' = [n |-> a.n, sum |-> a.sum, sum_sqr |-> a.sum_sqr]
    /\ UNCHANGED <<cfg, dt, baseline_json, constructed, frames>>

\* the assignment of a record of fields to the detector
Becomes(a) ==
    /\ _n' = a.n
    /\ _sum' = a.sum
    /\ _sum_sqr' = a.sum_sqr
    /\ _ewma' = a.ewma
    /\ _ewma_breaching' = a.breaching
    /\ _ewma_start' = a.start
    /\ _ewma_peak' = a.peak
    /\ _over_active' = a.over_active
    /\ _over_start' = a.over_start
    /\ _last_I' = a.last_I
    /\ _last_ts' = a.last_ts
    /\ out' = a.out
    /\ err' = a.err
    /\ UNCHANGED <<cfg, baseline, dt, baseline_json, constructed, frames>>

update(ts, power_W, room_temp_C, room_rh_pct, lux, outdoor_temp_C) ==
    \E r \in {Step(cfg, Self, ts, power_W, room_temp_C, lux, outdoor_temp_C)} :
      \E a \in {After(r, Self, ts)} :
        /\ Becomes(a)
        /\ twin' = IF twin = None THEN None
                   ELSE Some(After(Step(cfg, Val(twin), ts, power_W, room_temp_C,
                                        lux, outdoor_temp_C), Val(twin), ts))
        /\ hist' = HistNext(cfg, hist, ts, r.above, FracGE(r.I, WarnLevel(cfg)),
                            a.out,
                            [power_W |-> power_W, room_temp_C |-> room_temp_C,
                             lux |-> lux, outdoor_temp_C |-> outdoor_temp_C,
                             z2 |-> r.z2])

\* update called with power_W = None: _update_stats has incremented _n when
\* self._sum += value_w raises
NoPower(d) == [d EXCEPT !.n = @ + 1, !.out = <<>>, !.err = Some("TypeError")]

update_None(ts) ==
    /\ Becomes(NoPower(Self))
    /\ twin' = IF twin = None THEN None ELSE Some(NoPower(Val(twin)))
    /\ UNCHANGED hist

(***************************************************************************)
(* AnomalyDetectorManager.  A mapping given to process_data is a record of *)
(* entries [has, val]: has says the key is in the mapping, val is None or  *)
(* <<value>>.                                                              *)
(***************************************************************************)
Absent == [has |-> FALSE, val |-> None]

Entry(v) == [has |-> TRUE, val |-> v]

\* data.get(key, default)
Get(data, key, default) == IF data[key].has THEN data[key].val ELSE default

\* SensorReading.from_dict, before float() is applied to power_W
from_dict(data) ==
    [power_W        |-> Get(data, "power_W", Get(data, "power", Some(0))),
     timestamp      |-> Get(data, "timestamp", None),
     temp_C         |-> Get(data, "temp_C", Get(data, "temperature", None)),
     rh_pct         |-> Get(data, "rh_pct", Get(data, "humidity", None)),
     lux            |-> Get(data, "lux", None),
     outdoor_temp_C |-> Get(data, "outdoor_temp_C",
                            Get(data, "outside_temp", None))]

\* a timestamp string: text is "iso" (parses to the time at), "empty" or
\* "bad" (pd.to_datetime raises)
TsString(text, at) == [text |-> text, at |-> at]

TimestampOf_NoFallback(timestamp, now) ==
    IF timestamp # None THEN Val(timestamp).at ELSE now

\* ts of process_data: pd.to_datetime(timestamp) when the value is truthy and
\* parses, pd.Timestamp.now() otherwise
TimestampOf(timestamp, now) ==
    IF timestamp # None /\ Val(timestamp).text = "iso"
    THEN Val(timestamp).at
    ELSE now

DetectionResult(ts, events) ==
    [timestamp |-> ts, is_anomaly |-> Len(events) > 0, events |-> events,
     stats |-> [total_processed |-> total_processed',
                total_anomalies |-> total_anomalies']]

process_data_CountsCalls(data, now) ==
    \E sr \in {from_dict(data)} :
      IF sr.power_W = None
      THEN /\ err' = Some("TypeError")
           /\ result' = None
           /\ UNCHANGED <<cfg, baseline, dt, _ewma, _ewma_breaching,
                          _ewma_start, _ewma_peak, _over_start, _over_active,
                          _last_I, _last_ts, _n, _sum, _sum_sqr, out,
                          total_processed, total_anomalies, baseline_json,
                          constructed, frames, twin, hist>>
      ELSE /\ update(TimestampOf(sr.timestamp, now),
                     Val(sr.power_W), sr.temp_C, sr.rh_pct, sr.lux,
                     sr.outdoor_temp_C)
           /\ IF err' = None
              THEN /\ total_processed' = total_processed + 1
                   /\ total_anomalies' = total_anomalies + (IF out' # <<>> THEN 1 ELSE 0)
                   /\ result' = Some(DetectionResult(TimestampOf(sr.timestamp, now),
                                                     out'))
              ELSE /\ UNCHANGED <<total_processed, total_anomalies>>
                   /\ result' = None

\* process_data; now is what pd.Timestamp.now() returns.  float(None) in
\* from_dict raises before the detector is touched; an exception of update
\* skips the counters.
process_data(data, now) ==
    \E sr \in {from_dict(data)} :
      IF sr.power_W = None
      THEN /\ err' = Some("TypeError")
           /\ result' = None
           /\ UNCHANGED <<cfg, baseline, dt, _ewma, _ewma_breaching,
                          _ewma_start, _ewma_peak, _over_start, _over_active,
                          _last_I, _last_ts, _n, _sum, _sum_sqr, out,
                          total_processed, total_anomalies, baseline_json,
                          constructed, frames, twin, hist>>
      ELSE /\ update(TimestampOf(sr.timestamp, now),
                     Val(sr.power_W), sr.temp_C, sr.rh_pct, sr.lux,
                     sr.outdoor_temp_C)
           /\ IF err' = None
              THEN /\ total_processed' = total_processed + 1
                   /\ total_anomalies' = total_anomalies + Len(out')
                   /\ result' = Some(DetectionResult(TimestampOf(sr.timestamp, now),
                                                     out'))
              ELSE /\ UNCHANGED <<total_processed, total_anomalies>>
                   /\ result' = None

\* RealtimeAnomalyServer.process_data; sensor_data is a validated SensorData,
\* whose power_W is a number
server_process_data(sensor_data, now) ==
    \E ts \in {TimestampOf(sensor_data.timestamp, now)} :
      /\ update(ts, sensor_data.power_W, sensor_data.temp_C,
                sensor_data.rh_pct, sensor_data.lux, sensor_data.outdoor_temp_C)
      /\ IF err' = None
         THEN \E counted \in {[total_data_points |-> server.total_data_points + 1,
                                total_events |-> server.total_events + Len(out')]} :
                /\ server' = [server EXCEPT
                                !.total_data_points = counted.total_data_points,
                                !.total_events = counted.total_events]
                /\ result' = Some([timestamp |-> ts, events |-> out',
                                   stats |-> counted])
         ELSE /\ UNCHANGED server
              /\ result' = None

\* AnomalyDetectorManager.reset_stats
reset_stats ==
    /\ total_processed' = 0
    /\ total_anomalies' = 0
    /\ UNCHANGED <<cfg, baseline, dt, _ewma, _ewma_breaching, _ewma_start,
                   _ewma_peak, _over_start, _over_active, _last_I, _last_ts,
                   _n, _sum, _sum_sqr, out, err, result, baseline_json,
                   constructed, frames, twin, hist>>

\* AnomalyDetectorManager.get_status; anomaly_rate is the percentage as a
\* fraction, before rounding
get_status ==
    [status          |-> "running",
     total_processed |-> total_processed,
     total_anomalies |-> total_anomalies,
     anomaly_rate    |-> [num |-> total_anomalies * 100,
                          den |-> Max(1, total_processed)],
     config          |-> [ewma_k          |-> cfg.ewma_k,
                          current_limit_A |-> cfg.current_limit_A,
                          spike_delta_A   |-> cfg.spike_delta_A]]

(***************************************************************************)
(* update, statement by statement, for two calls made on one detector     *)
(* without a lock.  A frame is one call in progress: pc is the source line *)
(* of the statement it executes next, the other fields are its locals.     *)
(* The calls carry a power value only, so the thermal test at line 249 is  *)
(* false.  _update_stats runs its three statements (lines 164-166); the    *)
(* call to _stats at line 189 is one statement.                            *)
(***************************************************************************)
Frame(ts, power_W) ==
    [pc |-> "185", ts |-> ts, power_W |-> power_W, out |-> <<>>,
     st |-> _stats(0, 0, 0), z2 |-> BigFracZero, above |-> FALSE,
     I |-> Frac(0, 1), duration |-> 0, dI |-> Frac(0, 1), err |-> None]

Finished(f) == f.pc \in {"returned", "raised"}

\* the call has executed a statement and has not returned
Running(f) == f.pc # "185" /\ ~Finished(f)

Goto(d, f, pc) == [d |-> d, f |-> [f EXCEPT !.pc = pc]]

Raise(d, f, e) ==
    [d |-> [d EXCEPT !.out = <<>>, !.err = Some(e)],
     f |-> [f EXCEPT !.pc = "raised", !.out = <<>>, !.err = Some(e)]]

\* the start of an Event built while the tracker's start time is None: -1
\* stands for the None it carries
StartOf(start) == IF start = None THEN Some(-1) ELSE start

\* the statement at f.pc, executed on the fields d
Statement(c, d, f) ==
    CASE f.pc = "185" -> Goto(d, [f EXCEPT !.out = <<>>], "164")
      [] f.pc = "164" -> Goto([d EXCEPT !.n = @ + 1], f, "165")
      [] f.pc = "165" -> Goto([d EXCEPT !.sum = @ + f.power_W], f, "166")
      [] f.pc = "166" ->
           Goto([d EXCEPT !.sum_sqr = @ + f.power_W * f.power_W], f, "189")
      [] f.pc = "189" ->
           Goto(d, [f EXCEPT !.st = _stats(d.n, d.sum, d.sum_sqr)], "191")
      [] f.pc = "191" ->
           Goto([d EXCEPT !.ewma = EwmaNext(c, @, f.power_W)], f, "192")
      [] f.pc = "192" ->
           Goto(d, [f EXCEPT !.z2 = ZSquared(d.ewma, f.power_W, f.st.var)],
                "193")
      [] f.pc = "193" -> Goto(d, [f EXCEPT !.above = Above(c, f.z2)], "195")
      [] f.pc = "195" ->
           Goto(d, f, IF f.above /\ ~d.breaching THEN "196" ELSE "199")
      [] f.pc = "196" -> Goto([d EXCEPT !.breaching = TRUE], f, "197")
      [] f.pc = "197" -> Goto([d EXCEPT !.start = Some(f.ts)], f, "198")
      [] f.pc = "198" -> Goto([d EXCEPT !.peak = f.z2], f, "215")
      [] f.pc = "199" ->
           Goto(d, f, IF f.above /\ d.breaching THEN "200" ELSE "201")
      [] f.pc = "200" ->
           Goto([d EXCEPT !.peak = BigFracMax(@, f.z2)], f, "215")
      [] f.pc = "201" ->
           Goto(d, f, IF (~f.above) /\ d.breaching THEN "202" ELSE "215")
      [] f.pc = "202" ->
           IF d.start = None THEN Raise(d, f, "TypeError")
           ELSE Goto(d, [f EXCEPT !.duration = f.ts - Val(d.start)], "203")
      [] f.pc = "203" ->
           Goto(d, f, IF f.duration >= c.ewma_sustain_sec THEN "204" ELSE "209")
      [] f.pc = "204" ->
           Goto(d, [f EXCEPT !.out =
                      Append(@, Event("power_ewma_anomaly",
                                      Val(StartOf(d.start)), f.ts, "alert",
                                      [z_peak |-> d.peak, mu_W |-> f.st.mu,
                                       sd_W |-> f.st.var]))],
                "209")
      [] f.pc = "209" -> Goto([d EXCEPT !.breaching = FALSE], f, "210")
      [] f.pc = "210" -> Goto([d EXCEPT !.start = None], f, "211")
      [] f.pc = "211" -> Goto([d EXCEPT !.peak = BigFracZero], f, "215")
      [] f.pc = "215" -> Goto(d, [f EXCEPT !.I = CurrentA(c, f.power_W)], "218")
      [] f.pc = "218" ->
           Goto(d, f, IF FracGE(f.I, WarnLevel(c)) THEN "219" ELSE "234")
      [] f.pc = "219" -> Goto(d, f, IF ~d.over_active THEN "220" ELSE "223")
      [] f.pc = "220" -> Goto([d EXCEPT !.over_active = TRUE], f, "221")
      [] f.pc = "221" -> Goto([d EXCEPT !.over_start = Some(f.ts)], f, "237")
      [] f.pc = "223" ->
           IF d.over_start = None THEN Raise(d, f, "TypeError")
           ELSE Goto(d, [f EXCEPT !.duration = f.ts - Val(d.over_start)], "224")
      [] f.pc = "224" ->
           Goto(d, f, IF f.duration >= c.near_limit_min_sec THEN "226" ELSE "237")
      [] f.pc = "226" ->
           IF c.current_limit_A = 0 THEN Raise(d, f, "ZeroDivisionError")
           ELSE Goto(d, [f EXCEPT !.out =
                           Append(@, OverEvent(c, StartOf(d.over_start), f.I,
                                               f.ts))],
                     "232")
      [] f.pc = "232" -> Goto([d EXCEPT !.over_start = Some(f.ts)], f, "237")
      [] f.pc = "234" -> Goto([d EXCEPT !.over_active = FALSE], f, "235")
      [] f.pc = "235" -> Goto([d EXCEPT !.over_start = None], f, "237")
      [] f.pc = "237" ->
           Goto(d, f, IF d.last_I # None /\ d.last_ts # None
                      THEN "238" ELSE "245")
      [] f.pc = "238" ->
           Goto(d, [f EXCEPT !.dI = FracSub(f.I, Val(d.last_I))], "239")
      [] f.pc = "239" ->
           Goto(d, f, IF \/ FracGE(FracAbs(f.dI), Frac(c.spike_delta_A, 1))
                         \/ FracGE(f.I, Frac(c.spike_abs_A, 1))
                      THEN "240" ELSE "245")
      [] f.pc = "240" ->
           Goto(d, [f EXCEPT !.out =
                      Append(@, Event("short_spike_suspect", Val(d.last_ts),
                                      f.ts, "alert",
                                      [delta_A |-> f.dI, I_A |-> f.I]))],
                "245")
      [] f.pc = "245" -> Goto([d EXCEPT !.last_I = Some(f.I)], f, "246")
      [] f.pc = "246" -> Goto([d EXCEPT !.last_ts = Some(f.ts)], f, "249")
      [] f.pc = "249" -> Goto(d, f, "267")
      [] f.pc = "267" ->
           Goto([d EXCEPT !.out = f.out, !.err = None], f, "returned")

\* the fields of the detector written from a record
Writes(a) ==
    /\ _n' = a.n
    /\ _sum' = a.sum
    /\ _sum_sqr' = a.sum_sqr
    /\ _ewma' = a.ewma
    /\ _ewma_breaching' = a.breaching
    /\ _ewma_start' = a.start
    /\ _ewma_peak' = a.peak
    /\ _over_active' = a.over_active
    /\ _over_start' = a.over_start
    /\ _last_I' = a.last_I
    /\ _last_ts' = a.last_ts
    /\ out' = a.out
    /\ err' = a.err

\* two threads enter update, with samples stamped 10 s and 14 s after the
\* latest call; twin keeps the fields they found
update_enter ==
    /\ script.phase = "free"
    /\ \E powerA, powerB \in {1000, 8800} :
          frames' = [calls |-> <<Frame(hist.clock + 10, powerA),
                                 Frame(hist.clock + 14, powerB)>>,
                     overlapped |-> FALSE]
    /\ twin' = Some(Self)
    /\ script' = [script EXCEPT !.phase = "race"]
    /\ UNCHANGED <<cfg, baseline, dt, _ewma, _ewma_breaching, _ewma_start,
                   _ewma_peak, _over_start, _over_active, _last_I, _last_ts,
                   _n, _sum, _sum_sqr, out, err, baseline_json, constructed,
                   hist, total_processed, total_anomalies, result, server,
                   batch, tasks>>

\* one of the two threads executes its next statement
update_statement ==
    /\ script.phase = "race"
    /\ \E i \in 1..2 :
          /\ ~Finished(frames.calls[i])
          /\ \E r \in {Statement(cfg, Self, frames.calls[i])} :
                /\ Writes(r.d)
                /\ frames' = [calls |-> [frames.calls EXCEPT ![i] = r.f],
                              overlapped |-> \/ frames.overlapped
                                             \/ Running(frames.calls[3 - i])]
    /\ UNCHANGED <<cfg, baseline, dt, baseline_json, constructed, twin, hist,
                   script, total_processed, total_anomalies, result, server,
                   batch, tasks>>

(***************************************************************************)
(* run_batch, on an input table with a timestamp and a power column and    *)
(* no weather table: the rows are read, indexed by timestamp and sorted,   *)
(* then fed one by one to a detector constructed for the run.              *)
(***************************************************************************)
\* an index left in the order of the file
SortIndex_KeepsOrder(table) == {table}

\* df.set_index(ts_col).sort_index(): the rows in non-decreasing timestamp
\* order; rows of equal timestamp come in any order
SortIndex(table) ==
    LET n == Len(table)
        perms == {f \in [1..n -> 1..n] :
                    \A i, j \in 1..n : i # j => f[i] # f[j]}
    IN  {[i \in 1..n |-> table[f[i]]] :
            f \in {g \in perms :
                     \A i \in 1..(n - 1) : table[g[i]].ts <= table[g[i + 1]].ts}}

\* the dict appended to rows for an event; info_json is json.dumps(e.info)
TableRow(e) ==
    [type |-> e.type, start |-> e.start, end |-> e.end,
     severity |-> e.severity, info_json |-> [dumps |-> e.info]]

\* run_batch called on a table: pd.read_csv has read it
BatchInit(table) ==
    batch = Some([input |-> table, pending |-> table, rows |-> <<>>,
                  phase |-> "read", returned |-> None])

\* run_batch up to the loop: to_datetime, set_index, sort_index
run_batch_sort ==
    /\ batch # None
    /\ Val(batch).phase = "read"
    /\ \E df \in SortIndex(Val(batch).input) :
          batch' = Some([Val(batch) EXCEPT !.pending = df, !.phase = "loop"])
    /\ UNCHANGED <<cfg, baseline, dt, _ewma, _ewma_breaching, _ewma_start,
                   _ewma_peak, _over_start, _over_active, _last_I, _last_ts,
                   _n, _sum, _sum_sqr, out, err, baseline_json, constructed,
                   frames, twin, hist, script,
                   total_processed, total_anomalies, result, server, tasks>>

\* one iteration of for ts, row in df.iterrows()
run_batch_row ==
    /\ batch # None
    /\ Val(batch).phase = "loop"
    /\ Val(batch).pending # <<>>
    /\ \E row \in {Head(Val(batch).pending)} :
          update(row.ts, row.power_W, None, None, None, None)
    /\ batch' = Some(IF err' = None
                     THEN [Val(batch) EXCEPT
                             !.pending = Tail(@),
                             !.rows = @ \o [i \in 1..Len(out') |->
                                              TableRow(out'[i])]]
                     ELSE [Val(batch) EXCEPT !.phase = "failed"])

\* the loop is over: out_df = pd.DataFrame(rows) is returned
run_batch_return ==
    /\ batch # None
    /\ Val(batch).phase = "loop"
    /\ Val(batch).pending = <<>>
    /\ batch' = Some([Val(batch) EXCEPT !.phase = "done",
                                        !.returned = Some(Val(batch).rows)])
    /\ UNCHANGED <<cfg, baseline, dt, _ewma, _ewma_breaching, _ewma_start,
                   _ewma_peak, _over_start, _over_active, _last_I, _last_ts,
                   _n, _sum, _sum_sqr, out, err, baseline_json, constructed,
                   frames, twin, hist, script,
                   total_processed, total_anomalies, result, server, tasks>>

(***************************************************************************)
(* Free caller: any power from Powers, any spacing from Deltas (a negative *)
(* one is a clock that steps back), optional fields from Sides, on the     *)
(* default Config.                                                         *)
(***************************************************************************)
MaxSamples == 4

Powers == {1000, 6000, 8000}

Deltas == {-10, 2, 10}

JulyFirst == 181 * SecPerDay

Sides == {[room |-> None, lux |-> None, outdoor |-> None],
          [room |-> Some(30), lux |-> Some(50), outdoor |-> Some(25)]}

Init == Standalone(EWMABaseline(100, 1000, 100), Config, 2, JulyFirst)

Sample ==
    /\ hist.calls < MaxSamples
    /\ \E p \in Powers, d \in Deltas, s \in Sides :
          update(IF hist.calls = 0 THEN hist.clock ELSE hist.clock + d,
                 p, s.room, None, s.lux, s.outdoor)
    /\ UNCHANGED <<script, total_processed, total_anomalies, result, server, batch, tasks>>

Next == Sample

Spec == Init /\ [][Next]_vars

\* a detector with the default Config on a small baseline
InitSmall == Standalone(EWMABaseline(10, 1000, 100), Config, 2, JulyFirst)

\* the same caller on a detector whose Config has near_limit_min_sec = 0
SpecArm ==
    /\ Standalone(EWMABaseline(100, 1000, 100),
          [Config EXCEPT !.near_limit_min_sec = 0], 2, JulyFirst)
    /\ [][Next]_vars

(***************************************************************************)
(* Scripted callers on a freshly constructed detector: samples one sample  *)
(* period apart, no optional fields.                                       *)
(***************************************************************************)
BaselineParams ==
    {<<0, 0, 0>>, <<10, 1000, 0>>, <<10, 1000, 100>>, <<10, 1000, 400>>,
     <<100, 1000, 100>>, <<1000, 1000, 100>>, <<4, 10, 1>>, <<10, 180, 1>>,
     <<1000, 300, 100>>, <<1000000, 3, 1>>}

Baselines == {EWMABaseline(p[1], p[2], p[3]) : p \in BaselineParams}

Periods == {2, 5, 10}

NextTs == IF hist.calls = 0 THEN hist.clock ELSE hist.clock + dt

\* baseline.mean() as a whole number of watts
MeanW(b) == mean(b).num \div mean(b).den

\* baseline.std() as a whole number of watts
StdW(b) ==
    CHOOSE s \in 0..400 : BigMul(BigSq(Big(s)), std(b).den) = std(b).num

\* power_W = baseline.mean(), repeatedly
MaxConstSamples == 8

FeedMean ==
    /\ hist.calls < MaxConstSamples
    /\ update(NextTs, MeanW(baseline), None, None, None, None)
    /\ UNCHANGED <<script, total_processed, total_anomalies, result, server, batch, tasks>>

SpecConst ==
    /\ \E b \in Baselines, sp \in Periods : Standalone(b, Config, sp, JulyFirst)
    /\ [][FeedMean]_vars

\* power_W = mean + 50*std for ceil(ewma_sustain_sec / period) + 2 samples,
\* then one sample at the mean
SustainBaselines == {b \in Baselines : std(b).num # BigZero /\ StdW(b) <= 100}

HighCount == (cfg.ewma_sustain_sec + dt - 1) \div dt + 2

FeedHigh ==
    /\ hist.calls < HighCount
    /\ update(NextTs, MeanW(baseline) + 50 * StdW(baseline),
              None, None, None, None)
    /\ UNCHANGED <<script, total_processed, total_anomalies, result, server, batch, tasks>>

FeedBack ==
    /\ hist.calls = HighCount
    /\ update(NextTs, MeanW(baseline), None, None, None, None)
    /\ UNCHANGED <<script, total_processed, total_anomalies, result, server, batch, tasks>>

SustainDone == hist.calls = HighCount + 1

SpecSustain ==
    /\ \E b \in SustainBaselines, sp \in Periods :
          Standalone(b, Config, sp, JulyFirst)
    /\ [][FeedHigh \/ FeedBack]_vars

\* baseline-level samples, one sample HighFactor std above the mean, then
\* baseline-level samples again; the sample period is below ewma_sustain_sec
MaxWarm == 2

MaxBack == 6

Warm ==
    /\ script.phase = "free"
    /\ hist.calls < MaxWarm
    /\ update(NextTs, MeanW(baseline), None, None, None, None)
    /\ script' = [script EXCEPT !.warm_breach = @ \/ hist'.above]
    /\ UNCHANGED <<total_processed, total_anomalies, result, server, batch, tasks>>

High ==
    /\ script.phase = "free"
    /\ hist.calls >= 1
    /\ \E k \in {10, 50} :
          update(NextTs, MeanW(baseline) + k * StdW(baseline),
                 None, None, None, None)
    /\ script' = [script EXCEPT !.phase = "back"]
    /\ UNCHANGED <<total_processed, total_anomalies, result, server, batch, tasks>>

Back ==
    /\ script.phase = "back"
    /\ hist.calls < MaxWarm + 1 + MaxBack
    /\ update(NextTs, MeanW(baseline), None, None, None, None)
    /\ UNCHANGED <<script, total_processed, total_anomalies, result, server, batch, tasks>>

InitShort ==
    /\ \E b \in SustainBaselines,
          sp \in {p \in Periods : p < Config.ewma_sustain_sec} :
          Standalone(b, Config, sp, JulyFirst)
    /\ script.phase = "free"

SpecShort == InitShort /\ [][Warm \/ High \/ Back]_vars

\* power_W = 8000 for 3 * near_limit_min_sec seconds' worth of samples
OverCount == (3 * cfg.near_limit_min_sec) \div dt

FeedOver ==
    /\ hist.calls < OverCount
    /\ update(NextTs, 8000, None, None, None, None)
    /\ UNCHANGED <<script, total_processed, total_anomalies, result, server, batch, tasks>>

OverDone == hist.calls = OverCount

SpecOver ==
    /\ \E b \in Baselines, sp \in {1, 2, 3, 4, 6} : Standalone(b, Config, sp, JulyFirst)
    /\ [][FeedOver]_vars

(***************************************************************************)
(* Caller for the per-call rules: powers on the thresholds of the current  *)
(* rules at 220 V (6000 W = 27.3 A, 6600 W = 30 A, 8800 W = 40 A, and      *)
(* 8800 - 6600 W = 10 A), 2 s or 10 s apart, on a small baseline.          *)
(***************************************************************************)
MaxRuleSamples == 3

RulePowers == {1000, 6000, 6600, 8800, 9000}

RuleDeltas == {2, 10}


RuleSample ==
    /\ hist.calls < MaxRuleSamples
    /\ \E p \in RulePowers, d \in RuleDeltas, s \in Sides :
          update(IF hist.calls = 0 THEN hist.clock ELSE hist.clock + d,
                 p, s.room, None, s.lux, s.outdoor)
    /\ UNCHANGED <<script, total_processed, total_anomalies, result, server, batch, tasks>>

SpecRules ==
    /\ InitSmall
    /\ [][RuleSample]_vars

(***************************************************************************)
(* Caller for the thermal rule: a steady 1000 W, samples 2 s apart from    *)
(* the first or last day of a season, every combination of present/absent  *)
(* room, outdoor and lux values, with the lux gate on or off.              *)
(***************************************************************************)
MaxThermalSamples == 2

\* day of the year (0 = 1 January) of the first sample
ThermalSample ==
    /\ hist.calls < MaxThermalSamples
    /\ \E room \in ({None} \cup {Some(t) : t \in 25..31}), lux \in {None, Some(5), Some(20), Some(50)}, outdoor \in {None, Some(25)} :
          update(IF hist.calls = 0 THEN hist.clock ELSE hist.clock + 2,
                 1000, room, None, lux, outdoor)
    /\ UNCHANGED <<script, total_processed, total_anomalies, result, server, batch, tasks>>

SpecThermal ==
    /\ \E c \in {Config, [Config EXCEPT !.use_lux_gate = FALSE]}, day \in {0, 58, 59, 150, 151, 242, 243, 333, 334} :
          Standalone(EWMABaseline(100, 1000, 100), c, 2, day * SecPerDay)
    /\ [][ThermalSample]_vars

(***************************************************************************)
(* Caller with a Config of its own choice.                                 *)
(***************************************************************************)
MaxCfgSamples == 3

Configs ==
    {Config,
     [Config EXCEPT !.summer_months = 1..12, !.winter_months = 1..12],
     [Config EXCEPT !.current_limit_A = 0],
     [Config EXCEPT !.mains_voltage_V = 110],
     [Config EXCEPT !.use_lux_gate = FALSE]}

CfgSample ==
    /\ hist.calls < MaxCfgSamples
    /\ \E p \in {1000, 8800}, d \in RuleDeltas, s \in Sides :
          update(IF hist.calls = 0 THEN hist.clock ELSE hist.clock + d,
                 p, s.room, None, s.lux, s.outdoor)
    /\ UNCHANGED <<script, total_processed, total_anomalies, result, server, batch, tasks>>

SpecCfg ==
    /\ \E c \in Configs : Standalone(EWMABaseline(10, 1000, 100), c, 2, JulyFirst)
    /\ [][CfgSample]_vars

(***************************************************************************)
(* Two detectors constructed from the same baseline and Config with        *)
(* different sample_period_s, fed the same samples.                        *)
(***************************************************************************)
MaxTwinSamples == 3

TwinPeriod == 5

TwinSample ==
    /\ hist.calls < MaxTwinSamples
    /\ \E p \in RulePowers, d \in RuleDeltas, s \in Sides :
          update(IF hist.calls = 0 THEN hist.clock ELSE hist.clock + d,
                 p, s.room, None, s.lux, s.outdoor)
    /\ UNCHANGED <<script, total_processed, total_anomalies, result, server, batch, tasks>>

InitTwin ==
    /\ DetectorInit(EWMABaseline(10, 1000, 100), Config, 2, JulyFirst)
    /\ baseline_json = JsonOf(baseline)
    /\ ManagerInit
    /\ ServerInit
    /\ batch = None
    /\ twin = Some(Fresh(baseline, TwinPeriod))
    /\ tasks = <<>>

SpecTwin == InitTwin /\ [][TwinSample]_vars

(***************************************************************************)
(* A manager fed mappings with and without a power value, and a detector   *)
(* called directly with power_W = None.                                    *)
(***************************************************************************)
MaxMgrCalls == 2

Mappings ==
    {[power_W |-> pw, power |-> alias, timestamp |-> Absent,
      temp_C |-> side.room, temperature |-> Absent, rh_pct |-> Absent,
      humidity |-> Absent, lux |-> side.lux, outdoor_temp_C |-> side.outdoor,
      outside_temp |-> Absent] :
        pw \in {Absent, Entry(None), Entry(Some(1000)), Entry(Some(8800))}, alias \in {Absent, Entry(Some(6000))},
        side \in {[room |-> Absent, lux |-> Absent, outdoor |-> Absent],
                  [room |-> Entry(Some(30)), lux |-> Entry(Some(50)),
                   outdoor |-> Entry(Some(25))]}}

\* the mapping holds no power value
NoPowerValue(data) ==
    \/ ~data.power_W.has /\ ~data.power.has
    \/ data.power_W.has /\ data.power_W.val = None

\* what the caller of process_data(data, now) has seen once it returns
Noted(s, data, now) ==
    [s EXCEPT !.missing   = NoPowerValue(data),
              !.ts_in     = from_dict(data).timestamp,
              !.now       = now,
              !.converts  = from_dict(data).power_W # None,
              !.completed = IF result' # None THEN @ + 1 ELSE @,
              !.returned  = IF result' # None
                            THEN @ + Len(Val(result').events) ELSE @]

Process ==
    /\ hist.calls < MaxMgrCalls
    /\ \E data \in Mappings, d \in RuleDeltas :
          /\ process_data(data, hist.clock + d)
          /\ script' = Noted(script, data, hist.clock + d)
    /\ UNCHANGED <<server, batch, tasks>>

DirectNone ==
    /\ _n < baseline.n + MaxMgrCalls
    /\ update_None(hist.clock + 2)
    /\ script' = [script EXCEPT !.missing = TRUE]
    /\ UNCHANGED <<total_processed, total_anomalies, result, server, batch, tasks>>

ResetStats ==
    /\ reset_stats
    /\ script' = [script EXCEPT !.completed = 0, !.returned = 0]
    /\ UNCHANGED <<server, batch, tasks>>

SpecMgr ==
    /\ InitSmall
    /\ [][Process \/ DirectNone]_vars

\* a manager whose statistics are reset between calls
SpecStats ==
    /\ InitSmall
    /\ [][Process \/ ResetStats]_vars

(***************************************************************************)
(* A detector owned by a manager or by a server (the first call decides),  *)
(* fed inputs whose timestamp is absent, None, empty, unparseable or       *)
(* valid; the manager's mappings also with or without a usable power.      *)
(***************************************************************************)
MaxIngestCalls == 2

\* the timestamps a caller sends; at is the time a valid one parses to
Timestamps(at) ==
    {None, Some(TsString("empty", 0)), Some(TsString("bad", 0)),
     Some(TsString("iso", at))}

IngestMappings(at) ==
    {[power_W |-> pw, power |-> Absent, timestamp |-> stamp,
      temp_C |-> Absent, temperature |-> Absent, rh_pct |-> Absent,
      humidity |-> Absent, lux |-> Absent, outdoor_temp_C |-> Absent,
      outside_temp |-> Absent] :
        pw \in {Entry(None), Entry(Some(1000)), Entry(Some(8800))},
        stamp \in {Absent} \cup {Entry(t) : t \in Timestamps(at)}}

SensorData(at) ==
    {[timestamp |-> t, power_W |-> pw, temp_C |-> None, rh_pct |-> None,
      lux |-> None, outdoor_temp_C |-> None] :
        t \in Timestamps(at), pw \in {1000, 8800}}

Ingest ==
    /\ script.seq < MaxIngestCalls
    /\ script.phase \in {"free", "manager"}
    /\ \E data \in IngestMappings(hist.clock + 3), d \in RuleDeltas :
          /\ process_data(data, hist.clock + d)
          /\ script' = [Noted(script, data, hist.clock + d)
                          EXCEPT !.phase = "manager", !.seq = @ + 1]
    /\ UNCHANGED <<server, batch, tasks>>

Serve ==
    /\ script.seq < MaxIngestCalls
    /\ script.phase \in {"free", "server"}
    /\ \E sensor_data \in SensorData(hist.clock + 3), d \in RuleDeltas :
          /\ server_process_data(sensor_data, hist.clock + d)
          /\ script' = [script EXCEPT !.phase = "server", !.seq = @ + 1,
                                      !.ts_in = sensor_data.timestamp,
                                      !.now = hist.clock + d,
                                      !.converts = TRUE]
    /\ UNCHANGED <<total_processed, total_anomalies, batch, tasks>>

SpecIngest ==
    /\ InitSmall
    /\ [][Ingest \/ Serve]_vars

(***************************************************************************)
(* A batch run over a table whose rows come in any order, with repeated    *)
(* timestamps.                                                             *)
(***************************************************************************)
MaxBatchRows == 3

BatchRows ==
    {[ts |-> JulyFirst + o, power_W |-> p] : o \in {0, 2, 4}, p \in {1000, 8800}}

\* the caller sees what update was given and what it returned
BatchRow ==
    /\ run_batch_row
    /\ script' = [script EXCEPT
                    !.fed = Append(@, [ts |-> hist'.clock,
                                       power_W |-> hist'.power]),
                    !.emitted = @ \o out']
    /\ UNCHANGED <<total_processed, total_anomalies, result, server, tasks>>

SpecBatch ==
    /\ \E table \in (UNION {[1..n -> BatchRows] : n \in 1..MaxBatchRows}) :
       /\ DetectorInit(EWMABaseline(10, 1000, 100), Config, 2, JulyFirst)
       /\ baseline_json = JsonOf(EWMABaseline(10, 1000, 100))
       /\ ManagerInit
       /\ ServerInit
       /\ BatchInit(table)
       /\ twin = None
       /\ tasks = <<>>
    /\ [][run_batch_sort \/ BatchRow \/ run_batch_return]_vars

(***************************************************************************)
(* Two threads calling update on one detector, after at most MaxRaceWarm   *)
(* calls made one at a time.                                               *)
(***************************************************************************)
MaxRaceWarm == 1

RaceWarm ==
    /\ script.phase = "free"
    /\ hist.calls < MaxRaceWarm
    /\ \E p \in {1000, 8800} :
          update(IF hist.calls = 0 THEN hist.clock ELSE hist.clock + 2,
                 p, None, None, None, None)
    /\ UNCHANGED <<script, total_processed, total_anomalies, result, server, batch, tasks>>

SpecRace ==
    /\ InitSmall
    /\ [][RaceWarm \/ update_enter \/ update_statement]_vars

(***************************************************************************)
(* Construction from a baseline file, as AnomalyDetectorManager.__init__   *)
(* and RealtimeAnomalyServer.__init__ do it: from_json, then               *)
(* StreamingDetector(baseline, config); an exception of from_json is       *)
(* raised again and leaves no detector.                                    *)
(***************************************************************************)
NoDetector(e, c, sample_period_s, t0) ==
    /\ baseline = [n |-> 0, sum |-> 0, sum_sqr |-> 0]
    /\ cfg = c
    /\ dt = sample_period_s
    /\ _ewma = BigFracZero
    /\ _ewma_breaching = FALSE
    /\ _ewma_start = None
    /\ _ewma_peak = BigFracZero
    /\ _over_start = None
    /\ _over_active = FALSE
    /\ _last_I = None
    /\ _last_ts = None
    /\ _n = 0
    /\ _sum = 0
    /\ _sum_sqr = 0
    /\ out = <<>>
    /\ err = e
    /\ constructed = FALSE
    /\ frames = <<>>
    /\ hist = HistInit(t0)
    /\ script = [phase |-> "free", warm_breach |-> FALSE, missing |-> FALSE,
                 seq |-> 0, ts_in |-> None, now |-> 0, converts |-> FALSE,
                 completed |-> 0, returned |-> 0,
                 fed |-> <<>>, emitted |-> <<>>]

Construct(d, c, t0) ==
    /\ baseline_json = d
    /\ IF from_json(d).err = None
       THEN DetectorInit(from_json(d).baseline, c, 2, t0)
       ELSE NoDetector(from_json(d).err, c, 2, t0)
    /\ ManagerInit
    /\ ServerInit
    /\ batch = None
    /\ twin = None
    /\ tasks = <<>>

MaxLoadSamples == 3

BaselineRecords ==
    {[n |-> n0, sum |-> s0, sum_sqr |-> q0] :
        n0 \in {JAbsent, JNull, JText, JNumber(-5, 1), JNumber(0, 1),
                JNumber(10, 1), JNumber(37, 10)},
        s0 \in {JAbsent, JText, JNumber(0, 1), JNumber(10000, 1)},
        q0 \in {JNull, JNumber(0, 1), JNumber(10000, 1), JNumber(10100000, 1)}}

LoadSample ==
    /\ constructed
    /\ hist.calls < MaxLoadSamples
    /\ \E p \in {1000, 3000}, d \in RuleDeltas :
          update(IF hist.calls = 0 THEN hist.clock ELSE hist.clock + d,
                 p, None, None, None, None)
    /\ UNCHANGED <<script, total_processed, total_anomalies, result, server, batch, tasks>>

SpecLoad ==
    /\ \E d \in BaselineRecords : Construct(d, Config, JulyFirst)
    /\ [][LoadSample]_vars

(***************************************************************************)
(* Several process_data coroutines on one manager that has an alert        *)
(* callback.  The only await of process_data is the callback (line 226):   *)
(* from_dict, update, the counters, the DetectionResult and the logging    *)
(* run without suspension, so they are one step; a call that returned      *)
(* events is then suspended in the callback until the callback returns or  *)
(* raises, and other calls run meanwhile.  tasks holds one frame per call, *)
(* in the order the calls started.                                         *)
(***************************************************************************)
MaxAsyncCalls == 3

\* Coroutine that invokes the callback before update and the counters
Coroutine_CallbackFirst(before) ==
    [pc     |-> IF result' = None THEN "raised"
                ELSE IF Val(result').events # <<>> THEN "callback"
                ELSE "returned",
     result |-> result',
     before |-> before,
     alerts |-> IF result' # None /\ Val(result').events # <<>> THEN 1 ELSE 0,
     seen   |-> IF result' # None /\ Val(result').events # <<>>
                THEN Some(before) ELSE None,
     failed |-> FALSE]

\* the frame of a process_data call when its synchronous part is over: the
\* call has raised, or is suspended in alert_callback(result) (events were
\* returned), or has returned.  before is what the counters and _n were when
\* the call began, seen what they are when the callback is invoked.
Coroutine(before) ==
    [pc     |-> IF result' = None THEN "raised"
                ELSE IF Val(result').events # <<>> THEN "callback"
                ELSE "returned",
     result |-> result',
     before |-> before,
     alerts |-> IF result' # None /\ Val(result').events # <<>> THEN 1 ELSE 0,
     seen   |-> IF result' # None /\ Val(result').events # <<>>
                THEN Some([total_processed |-> total_processed',
                           total_anomalies |-> total_anomalies',
                           n |-> _n'])
                ELSE None,
     failed |-> FALSE]

\* a caller starts process_data on a mapping with or without a power value
AsyncCall ==
    /\ Len(tasks) < MaxAsyncCalls
    /\ \E data \in {m \in Mappings : m.power_W.has /\ ~m.power.has /\ ~m.temp_C.has},
          d \in RuleDeltas :
          /\ process_data(data, hist.clock + d)
          /\ tasks' = Append(tasks, Coroutine([total_processed |-> total_processed,
                                               total_anomalies |-> total_anomalies,
                                               n |-> _n]))
    /\ UNCHANGED <<script, server, batch>>

\* alert_callback_returns where an exception of the callback leaves
\* process_data
alert_callback_returns_Propagates ==
    /\ \E i \in DOMAIN tasks, raises \in BOOLEAN :
          /\ tasks[i].pc = "callback"
          /\ tasks' = [tasks EXCEPT ![i] =
                         [@ EXCEPT !.pc = IF raises THEN "raised" ELSE "returned",
                                   !.result = IF raises THEN None ELSE @,
                                   !.failed = raises]]
    /\ UNCHANGED <<cfg, baseline, dt, _ewma, _ewma_breaching, _ewma_start,
                   _ewma_peak, _over_start, _over_active, _last_I, _last_ts,
                   _n, _sum, _sum_sqr, out, err, baseline_json, constructed,
                   frames, twin, hist, script, total_processed,
                   total_anomalies, result, server, batch>>

\* alert_callback_returns where the returned result reads the counters anew
alert_callback_returns_LateStats ==
    /\ \E i \in DOMAIN tasks, raises \in BOOLEAN :
          /\ tasks[i].pc = "callback"
          /\ tasks' = [tasks EXCEPT ![i] =
                         [@ EXCEPT !.pc = "returned",
                                   !.result = Some([Val(@) EXCEPT !.stats =
                                       [total_processed |-> total_processed,
                                        total_anomalies |-> total_anomalies]]),
                                   !.failed = raises]]
    /\ UNCHANGED <<cfg, baseline, dt, _ewma, _ewma_breaching, _ewma_start,
                   _ewma_peak, _over_start, _over_active, _last_I, _last_ts,
                   _n, _sum, _sum_sqr, out, err, baseline_json, constructed,
                   frames, twin, hist, script, total_processed,
                   total_anomalies, result, server, batch>>

\* the callback a call is suspended in returns or raises an Exception
\* (lines 223-230: the exception is logged), and the call returns its result
alert_callback_returns ==
    /\ \E i \in DOMAIN tasks, raises \in BOOLEAN :
          /\ tasks[i].pc = "callback"
          /\ tasks' = [tasks EXCEPT ![i] =
                         [@ EXCEPT !.pc = "returned", !.failed = raises]]
    /\ UNCHANGED <<cfg, baseline, dt, _ewma, _ewma_breaching, _ewma_start,
                   _ewma_peak, _over_start, _over_active, _last_I, _last_ts,
                   _n, _sum, _sum_sqr, out, err, baseline_json, constructed,
                   frames, twin, hist, script, total_processed,
                   total_anomalies, result, server, batch>>

SpecAsync ==
    /\ InitSmall
    /\ [][AsyncCall \/ alert_callback_returns]_vars

(***************************************************************************)
(* Claims checked under Spec.                                              *)
(***************************************************************************)

\* C1: with non-decreasing timestamps, a call returns exactly one
\* power_ewma_anomaly when it ends a run of breached samples that began at
\* least ewma_sustain_sec earlier, and none on every other call.
C1_OneEventPerSustainedEpisode ==
    hist.mono =>
        Len(EwmaEvents(out)) =
            IF /\ hist.ended # None
               /\ hist.clock - Val(hist.ended) >= cfg.ewma_sustain_sec
            THEN 1 ELSE 0

C1_Witness ==
    /\ hist.mono
    /\ hist.ended # None
    /\ Len(EwmaEvents(out)) = 1

\* C2: a call whose sample is breached returns no power_ewma_anomaly,
\* however long the breach has lasted.
C2_NoEventWhileBreaching == hist.above => EwmaEvents(out) = <<>>

C2_Witness ==
    /\ hist.above
    /\ hist.mono
    /\ hist.run # None
    /\ hist.clock - Val(hist.run) >= cfg.ewma_sustain_sec
    /\ EwmaEvents(out) = <<>>

\* C3: a non-breached sample met while Breaching always returns the tracker
\* to Idle (start cleared, peak 0); if the run lasted less than
\* ewma_sustain_sec nothing is emitted; a later breach is timed from its own
\* first sample, and what is emitted starts there and lasts >= the threshold.
C3_ShortBreachDropped ==
    [][ /\ (_ewma_breaching /\ ~hist'.above) =>
              /\ ~_ewma_breaching'
              /\ _ewma_start' = None
              /\ _ewma_peak' = BigFracZero
              /\ (hist'.clock - Val(_ewma_start) < cfg.ewma_sustain_sec
                    => EwmaEvents(out') = <<>>)
        /\ _ewma_breaching' => _ewma_start' = hist'.run
        /\ \A i \in 1..Len(EwmaEvents(out')) :
              /\ Some(EwmaEvents(out')[i].start) = hist'.ended
              /\ EwmaEvents(out')[i].end - EwmaEvents(out')[i].start
                    >= cfg.ewma_sustain_sec
      ]_vars

C3_Witness ==
    /\ hist.ended # None
    /\ hist.mono
    /\ hist.clock - Val(hist.ended) < cfg.ewma_sustain_sec
    /\ ~_ewma_breaching
    /\ _ewma_start = None
    /\ EwmaEvents(out) = <<>>

\* C7: the call that takes the overcurrent tracker from Inactive to Active
\* records its timestamp as start and returns no overcurrent_near_limit,
\* also when near_limit_min_sec is 0 (SpecArm).
C7_ArmingCallIsSilent ==
    [][ (~_over_active /\ hist'.hot) =>
            /\ _over_active'
            /\ _over_start' = Some(hist'.clock)
            /\ OverEvents(out') = <<>>
      ]_vars

C7_Witness ==
    /\ hist.armed_now
    /\ cfg.near_limit_min_sec = 0
    /\ _over_active
    /\ _over_start = Some(hist.clock)

\* C8: with non-decreasing timestamps every overcurrent_near_limit event
\* spans at least near_limit_min_sec, and it ends at least near_limit_min_sec
\* after the previous one ended.
C8_OverEventsSpaced ==
    hist.mono =>
        \A i \in 1..Len(OverEvents(out)) :
            /\ OverEvents(out)[i].end - OverEvents(out)[i].start
                  >= cfg.near_limit_min_sec
            /\ hist.over_prev # None =>
                  OverEvents(out)[i].end - Val(hist.over_prev)
                      >= cfg.near_limit_min_sec

C8_Witness ==
    /\ hist.mono
    /\ cfg.near_limit_min_sec > 0
    /\ OverEvents(out) # <<>>
    /\ hist.over_prev # None

\* C10: after a call whose current is below the warn level the tracker is
\* Inactive with start cleared and the call returned no
\* overcurrent_near_limit; a later event never starts before the run of
\* above-warn samples it belongs to.
C10_DipResets ==
    /\ ~hist.hot =>
          /\ ~_over_active
          /\ _over_start = None
          /\ OverEvents(out) = <<>>
    /\ hist.mono =>
          \A i \in 1..Len(OverEvents(out)) :
              /\ hist.hot_run # None
              /\ OverEvents(out)[i].start >= Val(hist.hot_run)

C10_Witness ==
    /\ hist.mono
    /\ cfg.near_limit_min_sec > 0
    /\ hist.cooled_run # None
    /\ hist.clock - Val(hist.cooled_run) >= cfg.near_limit_min_sec
    /\ ~_over_active
    /\ OverEvents(out) = <<>>

(***************************************************************************)
(* Claims checked under the scripted callers.                              *)
(***************************************************************************)

\* C4 (SpecConst): feeding power_W = baseline.mean() to a fresh detector
\* never returns a power_ewma_anomaly.
C4_NoFalseBreachOnConstant == EwmaEvents(out) = <<>>

\* C5 as stated (SpecSustain), at the default 2 s period on a baseline of
\* at least 1000 samples: the whole sequence yields exactly one
\* power_ewma_anomaly, with z_peak >= ewma_k.
C5_ExactlyOneSustained ==
    (SustainDone /\ dt = 2 /\ baseline.n >= 1000) =>
        /\ hist.n_ewma = 1
        /\ \A i \in 1..Len(EwmaEvents(out)) :
              BigFracGE(EwmaEvents(out)[i].info.z_peak,
                        BigFrac(Big(cfg.ewma_k * cfg.ewma_k), BigOne))

\* C5 amended (SpecSustain): the sequence yields at most one
\* power_ewma_anomaly, and an emitted one has z_peak >= ewma_k.
C5_AtMostOneSustained ==
    /\ hist.n_ewma <= 1
    /\ \A i \in 1..Len(EwmaEvents(out)) :
          BigFracGE(EwmaEvents(out)[i].info.z_peak,
                    BigFrac(Big(cfg.ewma_k * cfg.ewma_k), BigOne))

C5_Witness ==
    /\ SustainDone
    /\ hist.n_ewma = 1

\* C6 as stated (SpecShort), for a detector that did not breach on its
\* baseline-level samples: the high sample and the baseline-level samples
\* after it yield no power_ewma_anomaly.
C6_ShortInputNoEvent ==
    (script.phase = "back" /\ ~script.warm_breach) => hist.n_ewma = 0

\* C6 amended (SpecShort): the events of the sequence are exactly its runs
\* of breached samples that lasted >= ewma_sustain_sec up to the first
\* non-breached sample, so the sequence yields none only when every run,
\* the one begun by the high sample included, is shorter.
C6_EventsAreSustainedRuns == hist.n_ewma = hist.n_long

C6_Witness ==
    /\ script.phase = "back"
    /\ ~script.warm_breach
    /\ hist.n_ewma = 1
    /\ hist.n_long = 1

\* C9 as stated (SpecOver), at the default 2 s period (6 samples): the
\* sequence yields at least 3 overcurrent_near_limit events of severity alert.
C9_ThreeAlerts == (OverDone /\ dt = 2) => hist.n_alert >= 3

\* C9 amended (SpecOver): the sequence yields at most 2
\* overcurrent_near_limit events (exactly 2 at the default 2 s period: the
\* arming call returns none), all of severity alert, each ending at least
\* near_limit_min_sec after the previous one.
C9_TwoAlerts ==
    /\ hist.n_over <= 2
    /\ hist.n_alert = hist.n_over
    /\ (OverDone /\ dt = 2) => hist.n_over = 2
    /\ (hist.over_end # None /\ hist.over_prev # None) =>
          Val(hist.over_end) - Val(hist.over_prev) >= cfg.near_limit_min_sec

C9_Witness ==
    /\ OverDone
    /\ dt = 2
    /\ hist.n_alert = 2

(***************************************************************************)
(* Claims checked under SpecRules.                                         *)
(***************************************************************************)
SpikeEvents(evs) == OfType(evs, "short_spike_suspect")

ThermalEvents(evs) ==
    SelectSeq(evs, LAMBDA e :
        e.type \in {"thermal_summer_room_hot_vs_outdoor",
                    "thermal_winter_room_too_cold_vs_outdoor"})

\* C11: an overcurrent_near_limit event is alert exactly when the current of
\* the sample that emits it is >= current_limit_A, and warn otherwise,
\* whatever the earlier samples of the episode were.
C11_SeverityFromEmittingSample ==
    \A i \in 1..Len(OverEvents(out)) :
        OverEvents(out)[i].severity =
            IF hist.power >= cfg.current_limit_A * cfg.mains_voltage_V
            THEN "alert" ELSE "warn"

\* a warn event from a run of hot samples that has already emitted an alert
C11_Witness ==
    /\ hist.calls = 3
    /\ hist.n_over = 2
    /\ hist.n_alert = 1
    /\ OverEvents(out) # <<>>
    /\ OverEvents(out)[1].severity = "warn"
    /\ hist.hot_run # None
    /\ Val(hist.hot_run) < OverEvents(out)[1].start

\* C12: every call after the first returns exactly one short_spike_suspect
\* (alert, from the previous call's timestamp to this one's) if
\* |I - I_prev| >= spike_delta_A or I >= spike_abs_A, and none otherwise;
\* I_prev is the previous call's current.
C12_SpikeRule ==
    [][(hist'.calls = hist.calls + 1 /\ hist.calls >= 1) =>
          LET V      == cfg.mains_voltage_V
              dW     == Abs(hist'.power - hist.power)
              spikes == SpikeEvents(out')
          IN  IF dW >= cfg.spike_delta_A * V \/ hist'.power >= cfg.spike_abs_A * V
              THEN /\ Len(spikes) = 1
                   /\ spikes[1].severity = "alert"
                   /\ spikes[1].start = hist.clock
                   /\ spikes[1].end = hist'.clock
              ELSE spikes = <<>>]_vars

\* a spike on the second call, 1000 W then 9000 W, after a call that
\* returned nothing
C12_Witness ==
    /\ hist.calls = 2
    /\ hist.power = 9000
    /\ Len(SpikeEvents(out)) = 1
    /\ SpikeEvents(out)[1].info.delta_A = FracSub(Frac(9000, 220), Frac(1000, 220))
    /\ hist.n_all = Len(out)

\* C13: the first call on a fresh detector returns no short_spike_suspect.
C13_NoSpikeOnFirstCall ==
    hist.calls = 1 => SpikeEvents(out) = <<>>

\* a first call whose current is at or above spike_abs_A
C13_Witness ==
    /\ hist.calls = 1
    /\ hist.power >= cfg.spike_abs_A * cfg.mains_voltage_V
    /\ _last_I # None

TypeRank(t) ==
    CASE t = "power_ewma_anomaly" -> 1
      [] t = "overcurrent_near_limit" -> 2
      [] t = "short_spike_suspect" -> 3
      [] OTHER -> 4

\* C17: the returned list is ordered power_ewma_anomaly, overcurrent_near_limit,
\* short_spike_suspect, thermal; and the sample is scored against the mean/std
\* that already include it.
C17_FixedOrderScoreAfterFold ==
    /\ \A i \in 1..Len(out), j \in 1..Len(out) :
          i < j => TypeRank(out[i].type) < TypeRank(out[j].type)
    /\ hist.calls >= 1 =>
          /\ hist.above = Above(cfg, ZSquared(_ewma, hist.power,
                                              _stats(_n, _sum, _sum_sqr).var))
          /\ \A i \in 1..Len(EwmaEvents(out)) :
                EwmaEvents(out)[i].info.mu_W = _stats(_n, _sum, _sum_sqr).mu

\* a call that returns all four events
C17_Witness ==
    /\ Len(out) = 4
    /\ EwmaEvents(out) # <<>>
    /\ ThermalEvents(out) # <<>>

(***************************************************************************)
(* Claims checked under SpecThermal.                                       *)
(***************************************************************************)
\* the thermal rule is evaluated on the latest sample
ThermalEvaluated ==
    /\ hist.calls >= 1
    /\ hist.room # None
    /\ hist.outdoor # None
    /\ (~cfg.use_lux_gate
        \/ (hist.lux # None /\ Val(hist.lux) >= cfg.occupancy_lux_threshold))

\* C14: a thermal event is returned only if room_temp_C and outdoor_temp_C are
\* present and the lux gate passes; in a summer month with room 30 and
\* outdoor 25 under the gate, lux 5 gives none and lux 50 gives
\* thermal_summer_room_hot_vs_outdoor.
C14_ThermalNeedsInputsAndGate ==
    /\ ThermalEvents(out) # <<>> => ThermalEvaluated
    /\ (/\ hist.calls >= 1
        /\ cfg.use_lux_gate
        /\ Month(hist.clock) \in cfg.summer_months
        /\ hist.room = Some(30)
        /\ hist.outdoor = Some(25)) =>
          /\ hist.lux = Some(5) => ThermalEvents(out) = <<>>
          /\ hist.lux = Some(50) =>
                /\ Len(ThermalEvents(out)) = 1
                /\ ThermalEvents(out)[1].type = "thermal_summer_room_hot_vs_outdoor"

\* the summer sample with lux 50 under the gate, after a call that returned
\* nothing
C14_Witness ==
    /\ hist.calls = 2
    /\ cfg.use_lux_gate
    /\ hist.room = Some(30)
    /\ hist.outdoor = Some(25)
    /\ hist.lux = Some(50)
    /\ Len(out) = 1
    /\ out[1].type = "thermal_summer_room_hot_vs_outdoor"
    /\ hist.n_all = 1

\* C15: when the rule is evaluated, a summer month gives one summer event
\* (alert from the alert threshold up, warn from the warn threshold up, else
\* none), a winter month one winter event (alert down from the alert
\* threshold, warn down from the warn threshold, else none), any other month
\* nothing; start = end = the sample's timestamp.
C15_ThermalThresholds ==
    ThermalEvaluated =>
        LET m    == Month(hist.clock)
            diff == Val(hist.room) - Val(hist.outdoor)
            th   == ThermalEvents(out)
            One(t, sev) ==
                /\ Len(th) = 1
                /\ th[1].type = t
                /\ th[1].severity = sev
                /\ th[1].start = hist.clock
                /\ th[1].end = hist.clock
        IN  /\ m \in cfg.summer_months =>
                IF diff >= cfg.summer_indoor_over_outdoor_alert
                THEN One("thermal_summer_room_hot_vs_outdoor", "alert")
                ELSE IF diff >= cfg.summer_indoor_over_outdoor_warn
                THEN One("thermal_summer_room_hot_vs_outdoor", "warn")
                ELSE th = <<>>
            /\ m \in cfg.winter_months =>
                IF diff <= cfg.winter_indoor_above_outdoor_min_alert
                THEN One("thermal_winter_room_too_cold_vs_outdoor", "alert")
                ELSE IF diff <= cfg.winter_indoor_above_outdoor_min_warn
                THEN One("thermal_winter_room_too_cold_vs_outdoor", "warn")
                ELSE th = <<>>
            /\ m \notin (cfg.summer_months \cup cfg.winter_months) => th = <<>>

\* a winter sample at or below the alert threshold, which is below the warn
\* threshold as well
C15_Witness ==
    /\ ThermalEvaluated
    /\ Month(hist.clock) = 12
    /\ Val(hist.room) - Val(hist.outdoor) = 3
    /\ Len(out) = 1
    /\ out[1].severity = "alert"

(***************************************************************************)
(* Claims checked under SpecCfg, SpecTwin and SpecMgr.                     *)
(***************************************************************************)
\* C16 as stated (SpecCfg): whatever the Config, one call returns at most 4
\* events, at most one of each of power_ewma_anomaly, overcurrent_near_limit,
\* short_spike_suspect and thermal.
C16_AtMostOnePerRule ==
    /\ Len(out) <= 4
    /\ Len(EwmaEvents(out)) <= 1
    /\ Len(OverEvents(out)) <= 1
    /\ Len(SpikeEvents(out)) <= 1
    /\ Len(ThermalEvents(out)) <= 1

\* C18: two detectors in equal states with equal Config, given the same
\* sample, return equal lists and end in equal states, whatever their
\* sample_period_s.
C18_Deterministic ==
    twin # None =>
        /\ Val(twin).dt # dt
        /\ [Val(twin) EXCEPT !.dt = dt] = Self

\* both detectors have returned the same three or more events on the third
\* sample
C18_Witness ==
    /\ twin # None
    /\ Val(twin).dt = TwinPeriod
    /\ dt = 2
    /\ hist.calls = 3
    /\ Len(out) >= 3
    /\ Val(twin).out = out

\* C19 as stated (SpecCfg): whatever the Config, update returns a list and
\* never raises.
C19_NeverRaises == err = None

\* C20 as stated (SpecMgr): a call given no power value fails and leaves the
\* detector's fields and the manager's counters as they were.
C20_MissingPowerRejected ==
    [][script'.missing =>
          /\ err' # None
          /\ UNCHANGED <<_n, _sum, _sum_sqr, _ewma, _ewma_breaching,
                         _ewma_start, _ewma_peak, _over_start, _over_active,
                         _last_I, _last_ts, total_processed,
                         total_anomalies>>]_vars

(***************************************************************************)
(* Claims checked under SpecLoad.                                          *)
(***************************************************************************)
\* the record has a missing or malformed field, an n that is not a
\* non-negative integer included
InvalidRecord(d) ==
    \/ ConvertError(d.n) # None
    \/ ConvertError(d.sum) # None
    \/ ConvertError(d.sum_sqr) # None
    \/ d.n.num < 0
    \/ d.n.num % d.n.den # 0

\* C21 as stated (SpecLoad): construction fails for every record with a
\* missing or malformed n, sum or sum_sqr, so no detector exists on an invalid
\* baseline.
C21_InvalidBaselineFailsConstruction ==
    InvalidRecord(baseline_json) => ~constructed

\* C22 as stated (SpecLoad): in every state of a detector built from a record
\* from_json accepts, the accumulator count is >= 0 and the variance under
\* the square root of _stats() and of EWMABaseline.std() is >= 0.
C22_CountAndStdNonNegative ==
    constructed =>
        /\ _n >= 0
        /\ BigGE(_stats(_n, _sum, _sum_sqr).var.num, BigZero)
        /\ BigGE(std(baseline).num, BigZero)

\* C23: on an update call after which the accumulator's standard deviation
\* is 0 the sample is not breached: the tracker is Idle after the call,
\* whether it was Idle or Breaching before.
C23_ZeroStdNeverBreaches ==
    [][(/\ hist'.calls = hist.calls + 1
        /\ _stats(_n', _sum', _sum_sqr').var.num = BigZero) =>
          /\ ~hist'.above
          /\ ~_ewma_breaching'
          /\ _ewma_start' = None]_vars

\* a call with a zero standard deviation that ended a run of breached samples
C23_Witness ==
    /\ hist.calls >= 2
    /\ hist.ended # None
    /\ _stats(_n, _sum, _sum_sqr).var.num = BigZero
    /\ ~_ewma_breaching

(***************************************************************************)
(* Claims about the accumulator, the frame of update and the first call.  *)
(***************************************************************************)
\* C24 (Spec): after k update calls with powers v1..vk the accumulator holds
\* n0 + k, s0 + (v1 + ... + vk) and q0 + (v1^2 + ... + vk^2).
C24_AccumulatorFoldsEverySample ==
    /\ _n = baseline.n + hist.calls
    /\ _sum = baseline.sum + hist.sum_v
    /\ _sum_sqr = baseline.sum_sqr + hist.sum_v2

\* three or more samples of different powers, some call with events and
\* optional fields, some without
C24_Witness ==
    /\ hist.calls >= 3
    /\ hist.sum_v # hist.calls * hist.power
    /\ hist.n_all >= 1
    /\ out = <<>>
    /\ _n = baseline.n + hist.calls

\* C25 (Spec): no update call changes the Baseline object or the Config; only
\* the detector's own accumulator and tracker fields change.
C25_BaselineAndConfigReadOnly ==
    [][baseline' = baseline /\ cfg' = cfg]_vars

\* the accumulator has moved away from the baseline it was copied from
C25_Witness ==
    /\ hist.calls >= 2
    /\ _n # baseline.n
    /\ _sum # baseline.sum
    /\ baseline = EWMABaseline(100, 1000, 100)
    /\ cfg = Config

\* C29 (SpecMgr): the first sample processed by a fresh detector or manager
\* returns no power_ewma_anomaly and no overcurrent_near_limit, and nothing at
\* all when no outdoor temperature is given.
C29_FirstSampleIsQuiet ==
    hist.calls = 1 =>
        /\ EwmaEvents(out) = <<>>
        /\ OverEvents(out) = <<>>
        /\ hist.outdoor = None => out = <<>>
        /\ (hist.outdoor = None /\ result # None) => ~Val(result).is_anomaly

\* a first sample of 8800 W (40 A) through the manager, without outdoor
\* temperature
C29_Witness ==
    /\ hist.calls = 1
    /\ hist.power = 8800
    /\ hist.outdoor = None
    /\ result # None
    /\ Val(result).events = <<>>
    /\ total_processed = 1

(***************************************************************************)
(* Claims about the callers of update: the manager, the server.           *)
(***************************************************************************)
\* the timestamp update has to receive for the latest process_data input
ExpectedTs(s) ==
    IF s.ts_in # None /\ Val(s.ts_in).text = "iso" THEN Val(s.ts_in).at
    ELSE s.now

\* C27 as stated (SpecIngest): every process_data call of the manager or the
\* server calls update exactly once, with the parsed timestamp when the
\* input's timestamp parses and with the wall-clock time otherwise.  A manager
\* mapping whose power_W is None fails in from_dict and never reaches update.
C27_EveryInputReachesUpdate ==
    [][script'.seq = script.seq + 1 =>
         /\ hist'.calls = hist.calls + 1
         /\ hist'.clock = ExpectedTs(script')]_vars

\* C27 amended (SpecIngest): every process_data call of the server, and every
\* one of the manager whose power value converts to a float, calls update
\* exactly once, with the parsed timestamp when the input's timestamp parses
\* and with the wall-clock time otherwise; a manager input whose power does
\* not convert never reaches update.
C27_ConvertibleInputReachesUpdate ==
    [][script'.seq = script.seq + 1 =>
         IF script'.converts
         THEN /\ hist'.calls = hist.calls + 1
              /\ hist'.clock = ExpectedTs(script')
         ELSE hist' = hist /\ _n' = _n]_vars

C27_Witness ==
    /\ script.seq = 2
    /\ hist.calls = 2
    /\ script.converts
    /\ script.ts_in # None
    /\ Val(script.ts_in).text = "bad"
    /\ hist.clock = script.now

\* C30 (SpecStats): total_processed is the number of process_data calls that
\* completed since construction or the last reset_stats, total_anomalies the
\* number of events they returned, a DetectionResult has is_anomaly exactly
\* when its events list is non-empty, and get_status reports "running" with
\* these two counters.
C30_CountersMatchCompletedCalls ==
    /\ total_processed = script.completed
    /\ total_anomalies = script.returned
    /\ result # None => (Val(result).is_anomaly <=> Val(result).events # <<>>)
    /\ get_status.status = "running"
    /\ get_status.total_processed = script.completed
    /\ get_status.total_anomalies = script.returned

C30_Witness ==
    /\ hist.calls = 2
    /\ script.completed = 1
    /\ script.returned >= 1
    /\ total_processed = 1
    /\ result # None
    /\ Val(result).is_anomaly

\* how often the row r occurs in the table
Occurrences(table, r) == Cardinality({i \in DOMAIN table : table[i] = r})

\* C28 (SpecBatch): run_batch calls update once per input row, in
\* non-decreasing timestamp order whatever the order of the input rows, on one
\* detector, and the table it returns holds exactly the events those calls
\* returned, in the order they were emitted.
C28_BatchFeedsSortedRowsOnce ==
    batch # None =>
      /\ hist.calls = Len(script.fed)
      /\ hist.mono
      /\ \A i \in 1..(Len(script.fed) - 1) :
            script.fed[i].ts <= script.fed[i + 1].ts
      /\ \A r \in BatchRows :
            Occurrences(script.fed, r) <= Occurrences(Val(batch).input, r)
      /\ _n = baseline.n + Len(script.fed)
      /\ Val(batch).phase = "done" =>
            /\ Len(script.fed) = Len(Val(batch).input)
            /\ Val(batch).returned =
                  Some([i \in 1..Len(script.emitted) |->
                          TableRow(script.emitted[i])])

C28_Witness ==
    /\ batch # None
    /\ Val(batch).phase = "done"
    /\ Len(Val(batch).input) = 3
    /\ Val(batch).input[1].ts > Val(batch).input[2].ts
    /\ Val(batch).input[2].ts = Val(batch).input[3].ts
    /\ Val(batch).input[2].power_W # Val(batch).input[3].power_W
    /\ Len(Val(Val(batch).returned)) >= 2

(***************************************************************************)
(* Claim checked under SpecRace.                                           *)
(***************************************************************************)
\* the fields of the detector that outlive a call
Fields(d) ==
    [n |-> d.n, sum |-> d.sum, sum_sqr |-> d.sum_sqr, ewma |-> d.ewma,
     breaching |-> d.breaching, start |-> d.start, peak |-> d.peak,
     over_active |-> d.over_active, over_start |-> d.over_start,
     last_I |-> d.last_I, last_ts |-> d.last_ts]

\* the detector and what each call gave back, once both calls are over
Outcome ==
    [fields |-> Fields(Self),
     a |-> [out |-> frames.calls[1].out, err |-> frames.calls[1].err],
     b |-> [out |-> frames.calls[2].out, err |-> frames.calls[2].err]]

\* the call of frame f made on the fields d, then the call of frame g
Serial(d, f, g) ==
    LET first  == After(Step(cfg, d, f.ts, f.power_W, None, None, None),
                        d, f.ts)
        second == After(Step(cfg, first, g.ts, g.power_W, None, None, None),
                        first, g.ts)
    IN  [fields |-> Fields(second),
         first  |-> [out |-> first.out, err |-> first.err],
         second |-> [out |-> second.out, err |-> second.err]]

SerialOutcomes ==
    LET ab == Serial(Val(twin), frames.calls[1], frames.calls[2])
        ba == Serial(Val(twin), frames.calls[2], frames.calls[1])
    IN  {[fields |-> ab.fields, a |-> ab.first, b |-> ab.second],
         [fields |-> ba.fields, a |-> ba.second, b |-> ba.first]}

BothOver ==
    /\ script.phase = "race"
    /\ Finished(frames.calls[1])
    /\ Finished(frames.calls[2])

\* C26 (SpecRace): two update calls on one detector that do not overlap leave
\* the detector and return the events of one of the two serial orders; calls
\* interleaved statement by statement without a lock reach (C26_Witness) a
\* final state and event output that neither serial order produces.
C26_OnlyOverlapLeavesSerialOrders ==
    (BothOver /\ ~frames.overlapped) => Outcome \in SerialOutcomes

C26_Witness ==
    /\ BothOver
    /\ frames.overlapped
    /\ frames.calls[1].err = None
    /\ frames.calls[2].err = None
    /\ Outcome \notin SerialOutcomes

(***************************************************************************)
(* A caller that samples at the fixed period dt for as long as it runs:    *)
(* 1000 W or 8000 W at first, and from some call onward only 8000 W, which *)
(* is above the warn level (36.4 A at 220 V).  The caller keeps sampling   *)
(* (weak fairness of its step); MaxLiveSamples ends the run.               *)
(***************************************************************************)
MaxLiveSamples == 6

FeedLive ==
    /\ script.seq < MaxLiveSamples
    /\ \E p \in {1000, 8000}, phase \in {"free", "hot"} :
          /\ script.phase = "hot" => phase = "hot"
          /\ phase = "hot" => p = 8000
          /\ update(NextTs, p, None, None, None, None)
          /\ script' = [script EXCEPT !.phase = phase, !.seq = @ + 1]
    /\ UNCHANGED <<total_processed, total_anomalies, result, server, batch,
                   tasks>>

\* the fairness is stated on the caller's own counter: while the caller has
\* samples left to take, it takes the next one
SpecLive ==
    /\ \E sp \in {1, 2, 5} :
          Standalone(EWMABaseline(10, 1000, 100), Config, sp, JulyFirst)
    /\ [][FeedLive]_vars
    /\ WF_script(/\ script.seq < MaxLiveSamples
                 /\ script' \in {[script EXCEPT !.phase = phase, !.seq = @ + 1] :
                                   phase \in {"free", "hot"}})

(***************************************************************************)
(* The WebSocket clients of the server.  tasks is here a record: sockets   *)
(* gives every connection its state ("new" before accept, "open" once      *)
(* websocket_endpoint has appended it, "closed" once the peer has gone and *)
(* sends to it fail, "gone" once the endpoint's WebSocketDisconnect        *)
(* handler has run), broadcasts holds one frame per broadcast_to_websockets*)
(* call (the index of its for loop, the client whose send_text it awaits,  *)
(* its disconnected_clients list), removals counts the successful removes  *)
(* per client and stale the list.remove calls that raised ValueError.  The *)
(* await of send_text (line 184) is the only suspension point of a         *)
(* broadcast: a step runs from one await to the next, and the cleanup loop *)
(* runs with the step that finds the for loop exhausted.                   *)
(***************************************************************************)
MaxClients == 2

MaxBroadcasts == 2

\* list.remove(c) on a list that holds c
Remove(clients, c) == SelectSeq(clients, LAMBDA x : x # c)

\* for client in disconnected_clients: self.websocket_clients.remove(client)
RECURSIVE Cleanup(_, _)
Cleanup(clients, disconnected) ==
    IF disconnected = <<>>
    THEN [clients |-> clients, removed |-> <<>>, err |-> None]
    ELSE IF \A k \in DOMAIN clients : clients[k] # Head(disconnected)
    THEN [clients |-> clients, removed |-> <<>>, err |-> Some("ValueError")]
    ELSE LET r == Cleanup(Remove(clients, Head(disconnected)),
                          Tail(disconnected))
         IN  [r EXCEPT !.removed = <<Head(disconnected)>> \o @]

\* websocket_endpoint: accept and append, or the WebSocketDisconnect handler
websocket_endpoint ==
    /\ \E c \in 1..MaxClients :
          \/ /\ tasks.sockets[c] = "new"
             /\ server' = [server EXCEPT !.websocket_clients = Append(@, c)]
             /\ tasks' = [tasks EXCEPT !.sockets[c] = "open"]
          \/ /\ tasks.sockets[c] = "closed"
             /\ \E r \in {Cleanup(server.websocket_clients, <<c>>)} :
                   /\ server' = [server EXCEPT !.websocket_clients = r.clients]
                   /\ tasks' = [tasks EXCEPT
                                  !.sockets[c] = "gone",
                                  !.removals[c] = @ + Len(r.removed),
                                  !.stale = IF r.err # None THEN @ + 1 ELSE @]
    /\ UNCHANGED <<cfg, baseline, dt, _ewma, _ewma_breaching, _ewma_start,
                   _ewma_peak, _over_start, _over_active, _last_I, _last_ts,
                   _n, _sum, _sum_sqr, out, err, baseline_json, constructed,
                   frames, twin, hist, script, total_processed,
                   total_anomalies, result, batch>>

\* the peer of an open connection goes away: sends to it raise from now on
\* and its endpoint's receive_text will raise WebSocketDisconnect
Hangup ==
    /\ \E c \in 1..MaxClients :
          /\ tasks.sockets[c] = "open"
          /\ tasks' = [tasks EXCEPT !.sockets[c] = "closed"]
    /\ UNCHANGED <<cfg, baseline, dt, _ewma, _ewma_breaching, _ewma_start,
                   _ewma_peak, _over_start, _over_active, _last_I, _last_ts,
                   _n, _sum, _sum_sqr, out, err, baseline_json, constructed,
                   frames, twin, hist, script, total_processed,
                   total_anomalies, result, server, batch>>

\* broadcast_to_websockets: the call up to its first await, or what runs
\* when a suspended send_text(cur) returns or raises: up to the await of the
\* next iteration, or through the end of the loop and the cleanup
broadcast_to_websockets ==
    /\ \/ /\ Len(tasks.broadcasts) < MaxBroadcasts
          /\ tasks' = [tasks EXCEPT !.broadcasts =
                         Append(@, IF server.websocket_clients # <<>>
                                   THEN [pc |-> "send", i |-> 2,
                                         cur |-> server.websocket_clients[1],
                                         disconnected |-> <<>>, left |-> <<>>]
                                   ELSE [pc |-> "done", i |-> 1, cur |-> 0,
                                         disconnected |-> <<>>, left |-> <<>>])]
          /\ UNCHANGED server
       \/ \E b \in DOMAIN tasks.broadcasts :
            LET f == tasks.broadcasts[b]
                d == IF tasks.sockets[f.cur] = "open" THEN f.disconnected
                     ELSE Append(f.disconnected, f.cur)
            IN  /\ f.pc = "send"
                /\ f.i <= Len(server.websocket_clients)
                /\ tasks' = [tasks EXCEPT !.broadcasts[b] =
                      [f EXCEPT !.i = @ + 1,
                                !.cur = server.websocket_clients[f.i],
                                !.disconnected = d]]
                /\ UNCHANGED server
       \/ \E b \in DOMAIN tasks.broadcasts :
            LET f == tasks.broadcasts[b]
                d == IF tasks.sockets[f.cur] = "open" THEN f.disconnected
                     ELSE Append(f.disconnected, f.cur)
            IN  /\ f.pc = "send"
                /\ f.i > Len(server.websocket_clients)
                /\ \E r \in {Cleanup(server.websocket_clients, d)} :
                      /\ server' = [server EXCEPT !.websocket_clients = r.clients]
                      /\ tasks' = [tasks EXCEPT
                            !.broadcasts[b] =
                                [f EXCEPT !.pc = IF r.err = None THEN "done"
                                                 ELSE "raised",
                                          !.disconnected = d,
                                          !.left = r.clients],
                            !.removals = [c \in DOMAIN @ |->
                                @[c] + Len(SelectSeq(r.removed,
                                                     LAMBDA x : x = c))],
                            !.stale = IF r.err # None THEN @ + 1 ELSE @]
    /\ UNCHANGED <<cfg, baseline, dt, _ewma, _ewma_breaching, _ewma_start,
                   _ewma_peak, _over_start, _over_active, _last_I, _last_ts,
                   _n, _sum, _sum_sqr, out, err, baseline_json, constructed,
                   frames, twin, hist, script, total_processed,
                   total_anomalies, result, batch>>

SpecSockets ==
    /\ \E sockets \in {[c \in 1..MaxClients |-> "new"]} :
       /\ DetectorInit(EWMABaseline(10, 1000, 100), Config, 2, JulyFirst)
       /\ baseline_json = JsonOf(baseline)
       /\ ManagerInit
       /\ ServerInit
       /\ batch = None
       /\ twin = None
       /\ tasks = [sockets |-> sockets,
                   broadcasts |-> <<>>,
                   removals |-> [c \in 1..MaxClients |-> 0],
                   stale |-> 0]
    /\ [][websocket_endpoint \/ Hangup \/ broadcast_to_websockets]_vars

(***************************************************************************)
(* Claims about the events' fields and the trackers' fields.               *)
(***************************************************************************)
\* C32 (Spec): an emitted power_ewma_anomaly event starts at the first
\* breached sample of its episode, ends at the first non-breached sample after
\* it, has severity alert, spans at least ewma_sustain_sec, and its z_peak is
\* the largest |z| of the breached samples of the episode, which is above
\* ewma_k.
C32_EwmaEventDescribesEpisode ==
    \A i \in DOMAIN EwmaEvents(out) :
      LET e == EwmaEvents(out)[i]
      IN  /\ hist.ended # None
          /\ ~hist.above
          /\ e.start = Val(hist.ended)
          /\ e.end = hist.clock
          /\ e.severity = "alert"
          /\ e.end - e.start >= cfg.ewma_sustain_sec
          /\ BigFracGE(e.info.z_peak, Val(hist.ended_peak))
          /\ BigFracGE(Val(hist.ended_peak), e.info.z_peak)
          /\ Above(cfg, e.info.z_peak)

\* an event whose episode had a later sample score above its first one
C32_Witness ==
    /\ EwmaEvents(out) # <<>>
    /\ hist.calls >= 3
    /\ EwmaEvents(out)[1].start < hist.clock - 10

\* C33 (Spec): after construction and after every update the breach flag is
\* set exactly when the EWMA start is set, the stored peak is 0 while idle and
\* above ewma_k while breaching, _over_active is set exactly when _over_start
\* is set, and _last_I is set exactly when _last_ts is set, both being unset
\* only before the first call.
C33_TrackerFieldsAgree ==
    /\ _ewma_breaching <=> _ewma_start # None
    /\ ~_ewma_breaching =>
          /\ BigFracGE(BigFracZero, _ewma_peak)
          /\ BigFracGE(_ewma_peak, BigFracZero)
    /\ _ewma_breaching => Above(cfg, _ewma_peak)
    /\ _over_active <=> _over_start # None
    /\ _last_I # None <=> _last_ts # None
    /\ _last_I = None <=> hist.calls = 0

\* both trackers are open after a second call
C33_Witness ==
    /\ hist.calls >= 2
    /\ _ewma_breaching
    /\ _over_active
    /\ _last_I # None

\* C34 (Spec): within one uninterrupted overcurrent episode the first
\* overcurrent event starts at the timestamp of the sample that armed the
\* tracker and each later one starts at the end of the previous event, so the
\* events of an episode tile its interval.
C34_OverEventsTile ==
    \A i \in DOMAIN OverEvents(out) :
      LET e == OverEvents(out)[i]
      IN  /\ hist.hot
          /\ Len(OverEvents(out)) = 1
          /\ e.end = hist.clock
          /\ hist.run_events = 1 => e.start = Val(hist.hot_run)
          /\ hist.run_events > 1 => e.start = Val(hist.over_prev)

\* the third event of one episode
C34_Witness ==
    /\ OverEvents(out) # <<>>
    /\ hist.run_events = 3
    /\ Val(hist.over_prev) > Val(hist.hot_run)

\* C35 (SpecCfg): a call given the same timestamp and power_W but other
\* values of room_temp_C, lux and outdoor_temp_C (room_rh_pct is read nowhere
\* in update) leaves the detector in the same state and returns the same
\* EWMA, overcurrent and spike events; two runs that agree on every
\* (timestamp, power_W) therefore stay in identical states call after call.
C35_SideInputsDoNotSteer ==
    [][\A s \in Sides :
         \A alt \in {After(Step(cfg, Self, hist'.clock, hist'.power, s.room,
                                s.lux, s.outdoor), Self, hist'.clock)} :
             /\ [alt EXCEPT !.out = <<>>] = [Self' EXCEPT !.out = <<>>]
             /\ EwmaEvents(alt.out) = EwmaEvents(out')
             /\ OverEvents(alt.out) = OverEvents(out')
             /\ OfType(alt.out, "short_spike_suspect")
                  = OfType(out', "short_spike_suspect")]_vars

\* a call given the side inputs has returned a thermal event next to the
\* events of the power rules
C35_Witness ==
    /\ hist.calls >= 2
    /\ hist.room # None
    /\ OfType(out, "thermal_summer_room_hot_vs_outdoor") # <<>>
    /\ OverEvents(out) # <<>>
    /\ OfType(out, "short_spike_suspect") # <<>>

\* C36 (Spec): while the timestamps given so far never decreased (and with
\* ewma_sustain_sec and near_limit_min_sec not negative), every event a call
\* returns has start <= end, and its end is the timestamp of that call.
C36_EventsEndAtTheCall ==
    (hist.mono /\ cfg.ewma_sustain_sec >= 0 /\ cfg.near_limit_min_sec >= 0) =>
        \A i \in DOMAIN out :
            /\ out[i].start <= out[i].end
            /\ out[i].end = hist.clock

\* a call in non-decreasing time has returned events of several rules, one
\* of them spanning earlier samples
C36_Witness ==
    /\ hist.mono
    /\ hist.calls >= 3
    /\ Len(out) >= 3
    /\ \E i \in DOMAIN out : out[i].start < out[i].end - 10

(***************************************************************************)
(* Claims about the manager's coroutines and its alert callback.           *)
(***************************************************************************)
\* C31 (SpecAsync): a process_data call invokes alert_callback exactly once
\* when the detector returned at least one event and never when it returned
\* none, and at the invocation the detector and the counters already include
\* the call's sample.
C31_CallbackOncePerAnomalousCall ==
    \A i \in DOMAIN tasks :
      LET f == tasks[i]
      IN  /\ f.result = None => f.alerts = 0
          /\ f.result # None =>
                /\ f.alerts = (IF Val(f.result).events # <<>> THEN 1 ELSE 0)
                /\ f.alerts = 1 =>
                      /\ Val(f.seen).n = f.before.n + 1
                      /\ Val(f.seen).total_processed
                           = f.before.total_processed + 1
                      /\ Val(f.seen).total_anomalies
                           = f.before.total_anomalies
                             + Len(Val(f.result).events)

\* one call has invoked the callback, another has returned without
C31_Witness ==
    /\ \E i \in DOMAIN tasks : tasks[i].alerts = 1
    /\ \E i \in DOMAIN tasks : tasks[i].pc = "returned" /\ tasks[i].alerts = 0

\* C37 (SpecAsync): whatever the interleaving of the coroutines, the result a
\* call returns carries the counters as they were right after its own update,
\* and each call began in the state the call started before it had left: the
\* results and the states are those of the calls run one after the other in
\* the order they started.
C37_CallsAreSerial ==
    \A i \in DOMAIN tasks :
      LET f == tasks[i]
          sofar == {j \in 1..i : tasks[j].result # None}
      IN  /\ f.before.n = baseline.n + Cardinality(sofar \ {i})
          /\ f.before.total_processed = Cardinality(sofar \ {i})
          /\ i > 1 /\ tasks[i - 1].result # None =>
                /\ f.before.total_processed
                     = Val(tasks[i - 1].result).stats.total_processed
                /\ f.before.total_anomalies
                     = Val(tasks[i - 1].result).stats.total_anomalies
          /\ f.result # None =>
                /\ f.pc \in {"callback", "returned"}
                /\ Val(f.result).stats.total_processed = Cardinality(sofar)
                /\ Val(f.result).stats.total_anomalies
                     = f.before.total_anomalies + Len(Val(f.result).events)

\* a call has returned from its callback after a later call had run
C37_Witness ==
    \E i \in DOMAIN tasks :
      /\ i < Len(tasks)
      /\ tasks[i].alerts = 1
      /\ tasks[i].pc = "returned"
      /\ tasks[i + 1].result # None
      /\ tasks[i + 1].pc = "callback"
      /\ total_processed > Val(tasks[i].result).stats.total_processed

C39_ClientsRemovedOnce ==
    /\ \A c \in 1..MaxClients :
          /\ tasks.removals[c] <= 1
          /\ (tasks.sockets[c] # "new" /\ tasks.removals[c] = 0)
                => \E k \in DOMAIN server.websocket_clients :
                      server.websocket_clients[k] = c
          /\ tasks.sockets[c] = "gone" => tasks.removals[c] = 1
    /\ tasks.stale = 0
    /\ \A b \in DOMAIN tasks.broadcasts :
          tasks.broadcasts[b].pc \in {"done", "raised"} =>
              \A k \in DOMAIN tasks.broadcasts[b].disconnected :
                  \A j \in DOMAIN tasks.broadcasts[b].left :
                      tasks.broadcasts[b].left[j]
                        # tasks.broadcasts[b].disconnected[k]

(***************************************************************************)
(* Claims about a sustained overcurrent.                                   *)
(***************************************************************************)
\* C40 (SpecLive): once every sample is at or above the warn level and the
\* timestamps advance by a fixed positive period, a call that returned no
\* overcurrent event is always followed by a call that returns one, as long
\* as the caller goes on sampling (here: while the samples near_limit_min_sec
\* takes are still to come): the tracker is never stuck active without
\* emitting.
C40_SustainedOverloadRealerts ==
    (/\ script.phase = "hot"
     /\ OverEvents(out) = <<>>
     /\ hist.calls + ((cfg.near_limit_min_sec + dt - 1) \div dt)
          <= MaxLiveSamples)
      ~> (script.phase = "hot" /\ OverEvents(out) # <<>>)

\* the third overcurrent event of a sustained overload
C40_Witness ==
    /\ script.phase = "hot"
    /\ OverEvents(out) # <<>>
    /\ hist.run_events >= 3

====
